---- MODULE Spec2Model ----
(***************************************************************************)
(* Authorization orchestration core of the multi-integration MCP server:   *)
(* one-time OAuth state in the KV store, session binding and CSRF cookies, *)
(* the approved-clients cookie, and the credential merge of the unified    *)
(* callback handler.                                                       *)
(*                                                                         *)
(* Spec       : the /authorize and /callback/:provider request flow of     *)
(*              src/src/oauth-handler.ts over                              *)
(*              src/src/workers-oauth-utils.ts                             *)
(* SpecMerge  : credentials and identity from the token exchange to        *)
(*              completeAuthorization, in src/src/oauth-handler.ts and in  *)
(*              src/unnamed/part_001                                       *)
(* SpecCookie : the approved-clients cookie, character by character        *)
(* SpecAuthorize : GET and POST /authorize of src/src/oauth-handler.ts,      *)
(*              request by request, with the headers of the response        *)
(* SpecStore  : the record user-providers::<email> of src/unnamed/part_000   *)
(*              under callbacks in flight together                           *)
(* SpecExpiry : the flow of Spec with the TTL of the state entries as a      *)
(*              fairness condition, for what eventually happens to an entry  *)
(* SpecCallback : the flow of Spec with callbacks on the URL of any provider *)
(* SpecIdentity : handleDirectProviderAuth and the callback of               *)
(*              src/unnamed/part_001 with several browsers and user rows     *)
(* SpecSave   : IntegrationService.saveIntegration of                        *)
(*              src/src/services/integrations.ts with calls in flight        *)
(*              together                                                     *)
(***************************************************************************)
EXTENDS Integers, Naturals, Sequences, FiniteSets, TLC

(* ------------------------------ bounds -------------------------------- *)

\* HTTP requests (GET /authorize, POST /authorize, GET /callback) served in one run
MaxRequests == 3

(* --------------------------- value domains ---------------------------- *)

\* JavaScript undefined, as a property value
Undef == "undefined"
\* JavaScript null inside a payload
Null == "null"

Browsers == {"b1", "b2"}
\* the browser that runs the /authorize flows
Users == {"b1"}
\* the browser that also sends Cookie headers no response ever set
Forger == "b2"
Clients == {"c1"}
\* provider names a request may carry; "slack" is not handled by oauth-handler.ts
FlowProviders == {"github", "slack"}
\* (provider, bearer) of the direct requests GET /authorize?provider=p
DirectInputs == {<<"github", Undef>>, <<"github", "tok">>, <<"slack", Undef>>}

Tokens == 1..MaxRequests
\* a callback URL without a state parameter
NoState == 0
CsrfTokens == 1..MaxRequests
\* an absent or empty csrf_token / cookie value
NoCsrf == 0

\* kv.get of a missing key (null); also the empty string, equally falsy
Absent == <<>>
\* no cookie of that name in the Cookie header, or an empty value
NoCookie == <<>>

(* ------------------------- workers-oauth-utils ------------------------ *)

\* OAuthError.toResponse: JSON body {error, error_description}
OAuthErrorResponse(code, description, statusCode) ==
    [status |-> statusCode, error |-> code, desc |-> description,
     json |-> TRUE, clears |-> FALSE]

\* c.text(...) / new Response(text, {status}): a plain body, no error code
TextResponse(text, statusCode) ==
    [status |-> statusCode, error |-> "", desc |-> text,
     json |-> FALSE, clears |-> FALSE]

NoResponse == [status |-> 0, error |-> "", desc |-> "", json |-> FALSE, clears |-> FALSE]

\* property order of the stateData object literals
PayloadKeys ==
    <<"clientId", "redirectUri", "requestedProvider", "isDirect", "currentToken", "existingProps">>

\* JSON.stringify of an object: properties in order, undefined ones left out
JSONStringify(data) ==
    SelectSeq([i \in 1..Len(PayloadKeys) |-> <<PayloadKeys[i], data[PayloadKeys[i]]>>],
              LAMBDA p : p[2] # Undef)

\* JSON.parse: an object holding exactly the properties of the text
JSONParse(text) ==
    [k \in {text[i][1] : i \in DOMAIN text} |->
        text[CHOOSE i \in DOMAIN text : text[i][1] = k][2]]

\* JSON.parse throws on text that is not a list of key/value pairs
JSONParseThrows(text) == \E i \in DOMAIN text : Len(text[i]) # 2

\* obj.k : undefined when the object has no such property
Field(obj, k) == IF k \in DOMAIN obj THEN obj[k] ELSE Undef

\* SHA-256 of the state token as lowercase hex: one digest per token
Sha256Hex(stateToken) == <<"sha256", stateToken>>

\* a binding cookie that carried the token itself instead of its digest
bindStateToSession_raw(stateToken) == <<"raw", stateToken>>

\* bindStateToSession: the value of the __Host-CONSENTED_STATE cookie
bindStateToSession(stateToken) == Sha256Hex(stateToken)

\* a store that kept only the authorization request of the payload
createOAuthState_onlyRequest(data) ==
    JSONStringify([data EXCEPT !["requestedProvider"] = Undef, !["isDirect"] = Undef,
                               !["currentToken"] = Undef, !["existingProps"] = Undef])

\* createOAuthState: the value written under oauth:state:<token>
createOAuthState(data) == JSONStringify(data)

\* a validation that left the entry in place
KvDelete_forgotten(store, stateToken) == store

\* a validation that marked the entry as used instead of deleting it
KvDelete_marker(store, stateToken) ==
    [store EXCEPT ![stateToken] = <<<<"consumed", "true">>>>]

\* kv.delete("oauth:state:" + token)
KvDelete(store, stateToken) == [store EXCEPT ![stateToken] = Absent]

\* a validation that deleted the entry before checking the binding
KvOnBindingFailure_deleteFirst(store, stateToken) == [store EXCEPT ![stateToken] = Absent]

\* the store after validateOAuthState threw on the binding check: the throw
\* comes before kv.delete
KvOnBindingFailure(store, stateToken) == store

\* a comparison that looked at the lengths of the two digests only
SessionHashMatches_lengthOnly(stateHash, consentedStateHash) ==
    Len(stateHash) = Len(consentedStateHash)

\* stateHash !== consentedStateHash
SessionHashMatches(stateHash, consentedStateHash) == stateHash = consentedStateHash

ErrMissingState == OAuthErrorResponse("invalid_request", "Missing state parameter", 400)
ErrInvalidState == OAuthErrorResponse("invalid_request", "Invalid or expired state", 400)
ErrMissingBinding ==
    OAuthErrorResponse("invalid_request",
        "Missing session binding cookie - authorization flow must be restarted", 400)
ErrBindingMismatch ==
    OAuthErrorResponse("invalid_request",
        "State token does not match session - possible CSRF attack detected", 400)
ErrStateData == OAuthErrorResponse("server_error", "Invalid state data", 500)

\* a validation that asked for a binding cookie and did not compare it
ValidateOutcome_anyCookie(stored, stateToken, cookie) ==
    IF stored = Absent THEN ErrInvalidState
    ELSE IF cookie = NoCookie THEN ErrMissingBinding
    ELSE IF JSONParseThrows(stored) THEN ErrStateData
    ELSE NoResponse

\* a validation that took a request without a binding cookie for bound
ValidateOutcome_cookieOptional(stored, stateToken, cookie) ==
    IF stored = Absent THEN ErrInvalidState
    ELSE IF cookie # NoCookie /\ ~SessionHashMatches(Sha256Hex(stateToken), cookie)
         THEN ErrBindingMismatch
    ELSE NoResponse

\* validateOAuthState after kv.get returned: the error it throws, or NoResponse
ValidateOutcome(stored, stateToken, cookie) ==
    IF stored = Absent THEN ErrInvalidState
    ELSE IF cookie = NoCookie THEN ErrMissingBinding
    ELSE IF ~SessionHashMatches(Sha256Hex(stateToken), cookie) THEN ErrBindingMismatch
    ELSE IF JSONParseThrows(stored) THEN ErrStateData
    ELSE NoResponse

ErrMissingCsrfForm == OAuthErrorResponse("invalid_request", "Missing CSRF token in form data", 400)
ErrMissingCsrfCookie == OAuthErrorResponse("invalid_request", "Missing CSRF token cookie", 400)
ErrCsrfMismatch == OAuthErrorResponse("invalid_request", "CSRF token mismatch", 400)

\* a csrf_token form entry that is a File, not a string
FileField == -1

\* a validation that compared nothing
validateCSRFToken_presenceOnly(tokenFromForm, tokenFromCookie) ==
    IF tokenFromForm = NoCsrf \/ tokenFromForm = FileField THEN ErrMissingCsrfForm
    ELSE IF tokenFromCookie = NoCsrf THEN ErrMissingCsrfCookie
    ELSE NoResponse

\* a validation that let a request without the CSRF cookie through
validateCSRFToken_cookieOptional(tokenFromForm, tokenFromCookie) ==
    IF tokenFromForm = NoCsrf \/ tokenFromForm = FileField THEN ErrMissingCsrfForm
    ELSE IF tokenFromCookie # NoCsrf /\ tokenFromForm # tokenFromCookie THEN ErrCsrfMismatch
    ELSE NoResponse

\* validateCSRFToken: the error it throws, or NoResponse when it returns
validateCSRFToken(tokenFromForm, tokenFromCookie) ==
    IF tokenFromForm = NoCsrf \/ tokenFromForm = FileField THEN ErrMissingCsrfForm
    ELSE IF tokenFromCookie = NoCsrf THEN ErrMissingCsrfCookie
    ELSE IF tokenFromForm # tokenFromCookie THEN ErrCsrfMismatch
    ELSE NoResponse

(* ---------------------------- oauth-handler --------------------------- *)

\* const supported = [...] of GET /callback/:provider, and the cases of
\* redirectToProvider's switch
Supported == {"github", "gmail", "calendar", "drive", "notion"}

\* the stateData literals of GET /authorize, POST /authorize and
\* handleDirectProviderAuth
StandardState(clientId, provider) ==
    [clientId |-> clientId, redirectUri |-> "https://client/cb",
     requestedProvider |-> provider, isDirect |-> Undef,
     currentToken |-> Undef, existingProps |-> Undef]

DirectState(provider, bearer) ==
    [clientId |-> Undef, redirectUri |-> Undef,
     requestedProvider |-> provider, isDirect |-> "true",
     currentToken |-> bearer,
     existingProps |-> IF bearer = Undef THEN Null ELSE "props"]

\* how the two Set-Cookie values of POST /authorize reach the browser through
\* Object.fromEntries(headers): only the last entry survives, or the runtime
\* joins both into one header value
HeaderModes == {"last", "joined"}

\* what the token exchange of a callback meets: no code parameter in the
\* callback URL, a token endpoint that answers with an error status, with a
\* body that does not parse, with a success status but no access_token, or
\* with an access token
ExchangeOutcomes ==
    {"ok", "missing_code", "upstream_error", "parse_error", "missing_access_token"}

\* fetchUpstreamAuthToken: the Response it returns as the error of the pair,
\* which the callback returns as it is
ExchangeFailure(outcome) ==
    IF outcome = "missing_code" THEN TextResponse("Missing code", 400)
    ELSE IF outcome = "upstream_error" THEN TextResponse("Failed to fetch access token", 500)
    ELSE IF outcome = "parse_error" THEN TextResponse("Failed to parse token response", 500)
    ELSE TextResponse("Missing access token in response", 400)

(* ------------------------------- state -------------------------------- *)

VARIABLES
    kv,            \* OAUTH_KV: state token -> stored JSON text, or Absent
    issued,        \* how many state tokens crypto.randomUUID has produced
    created,       \* history: state token -> the payload passed to createOAuthState
    fate,          \* history: "never" | "live" | "consumed" | "expired"
    jar,           \* browser -> its cookies
    csrfIssued,    \* how many CSRF tokens have been produced
    csrfUsed,      \* history: CSRF tokens a POST /authorize of the user has validated
    req,           \* callback requests in flight and finished
    flows,         \* state payloads of flows whose callback has passed validation
    grants,        \* props bundles the host's completeAuthorization has issued
    integrations,  \* part_001: the integration table rows of the one user, by provider
    exchanges,     \* how many authorization codes have been exchanged
    last,          \* history: arguments of the latest completeAuthorization call
    secret,        \* COOKIE_ENCRYPTION_KEY
    approvedCookie,\* value of __Host-APPROVED_CLIENTS in the browser, or NoCookie
    pristine,      \* history: the value addApprovedClient issued, before any tampering
    verdict,       \* history: the latest isClientApproved or addApprovedClient
    served,        \* /authorize requests answered so far
    stateKeys,     \* OAUTH_KV as /authorize fills it: state token -> stored text, or Absent
    cookies,       \* the cookies the browser holds after the /authorize responses
    auth,          \* history: the latest /authorize request and its response
    providersKv,   \* part_000: PROVIDERS_KV, the record user-providers::u@g
    callbacks,     \* part_000: the flows in flight, each at its position in the handler
    users,         \* part_001: e-mail -> the user row and integration rows of that user
    pendingAuth,   \* part_001: state payloads in flight, each with the browser bound to it
    proven,        \* history: browser -> e-mails it has authenticated as through google
    loadedFor,     \* history: (browser, e-mail) whose stored credentials went into a state
    savedBy,       \* history: (browser, e-mail, provider) of the credentials saved, and
                   \* whether the user row was there before
    idSteps,       \* part_001: requests served in the run of the identity flows
    lastExchange,  \* history: provider and exchange result of the latest callback
    integrationRows, \* the integration table: a set of rows
    saves          \* saveIntegration calls in flight, each at its position

flowVars == <<kv, issued, created, fate, jar, csrfIssued, csrfUsed, req>>
mergeVars == <<flows, grants, integrations, exchanges, last>>
cookieVars == <<secret, approvedCookie, pristine, verdict>>
authVars == <<served, stateKeys, cookies, auth>>
storeVars == <<providersKv, callbacks>>
identityVars == <<users, pendingAuth, proven, loadedFor, savedBy, idSteps, lastExchange>>
saveVars == <<integrationRows, saves>>
vars == <<flowVars, mergeVars, cookieVars, authVars, storeVars, identityVars, saveVars>>

ReqIds == 1..MaxRequests

IdleReq ==
    [pc |-> "idle", browser |-> "b1", provider |-> "github", token |-> NoState,
     cookie |-> NoCookie, stored |-> Absent, data |-> <<>>, fateAtGet |-> "none",
     afterBindFail |-> FALSE, afterFailure |-> FALSE, validated |-> FALSE,
     upstream |-> "none",
     resp |-> NoResponse]

EmptyState == StandardState(Undef, Undef)

InitFlow ==
    /\ kv = [t \in Tokens |-> Absent]
    /\ issued = 0
    /\ created = [t \in Tokens |-> EmptyState]
    /\ fate = [t \in Tokens |-> "never"]
    /\ jar = [b \in Browsers |-> [consented |-> NoCookie, csrf |-> NoCsrf, approved |-> <<>>]]
    /\ csrfIssued = 0
    /\ csrfUsed = {}
    /\ req = [r \in ReqIds |-> IdleReq]

(* ----- /authorize ----- *)

\* requests served so far
Served == issued + csrfIssued + Cardinality({r \in ReqIds : req[r].pc # "idle"})

\* createOAuthState: a fresh random token, one kv.put
PutState(data) ==
    /\ Served < MaxRequests
    /\ issued' = issued + 1
    /\ kv' = [kv EXCEPT ![issued + 1] = createOAuthState(data)]
    /\ created' = [created EXCEPT ![issued + 1] = data]
    /\ fate' = [fate EXCEPT ![issued + 1] = "live"]

\* isClientApproved on the browser's approved-clients cookie
JarApproves(b, clientId) == \E i \in DOMAIN jar[b].approved : jar[b].approved[i] = clientId

\* an update that kept only the client just approved
updatedApprovedClients_onlyNew(existing, clientId) == <<clientId>>

\* an update that moved the client just approved to the end of the list
updatedApprovedClients_moveLast(existing, clientId) ==
    Append(SelectSeq(existing, LAMBDA id : id # clientId), clientId)

\* addApprovedClient: Array.from(new Set([...existing, clientId]))
updatedApprovedClients(existing, clientId) ==
    IF \E i \in DOMAIN existing : existing[i] = clientId THEN existing
    ELSE Append(existing, clientId)

\* GET /authorize?provider=p without client_id: handleDirectProviderAuth.
\* redirectToProvider throws on an unsupported provider after the state is stored.
AuthorizeDirect(b, p, bearer) ==
    /\ PutState(DirectState(p, bearer))
    /\ jar' = IF p \in Supported
              THEN [jar EXCEPT ![b].consented = bindStateToSession(issued + 1)]
              ELSE jar
    /\ UNCHANGED <<mergeVars, cookieVars, authVars, storeVars, identityVars, saveVars, csrfIssued, csrfUsed, req>>

\* GET /authorize of an approved client: skips the consent screen
AuthorizeApproved(b, c, p) ==
    /\ JarApproves(b, c)
    /\ PutState(StandardState(c, p))
    /\ jar' = IF p \in Supported
              THEN [jar EXCEPT ![b].consented = bindStateToSession(issued + 1)]
              ELSE jar
    /\ UNCHANGED <<mergeVars, cookieVars, authVars, storeVars, identityVars, saveVars, csrfIssued, csrfUsed, req>>

\* GET /authorize of a client not yet approved: the consent page and its CSRF cookie
AuthorizeConsent(b, c) ==
    /\ ~JarApproves(b, c)
    /\ Served < MaxRequests
    /\ csrfIssued' = csrfIssued + 1
    /\ jar' = [jar EXCEPT ![b].csrf = csrfIssued + 1]
    /\ UNCHANGED <<mergeVars, cookieVars, authVars, storeVars, identityVars, saveVars, kv, issued, created, fate, csrfUsed, req>>

\* POST /authorize whose CSRF validation throws: error.toResponse(), no Set-Cookie
PostAuthorizeRejected(b, formToken) ==
    /\ validateCSRFToken(formToken, jar[b].csrf) # NoResponse
    /\ formToken # NoCsrf
    /\ formToken \in 1..csrfIssued
    /\ formToken \notin csrfUsed
    /\ csrfUsed' = csrfUsed \cup {formToken}
    /\ UNCHANGED <<mergeVars, cookieVars, authVars, storeVars, identityVars, saveVars, kv, issued, created, fate, jar, csrfIssued, req>>

\* POST /authorize that passes CSRF validation with a well-formed state field:
\* the result of validateCSRFToken (its clearCookie) is not used
PostAuthorize(b, formToken, c, p, mode) ==
    /\ validateCSRFToken(formToken, jar[b].csrf) = NoResponse
    /\ PutState(StandardState(c, p))
    /\ csrfUsed' = csrfUsed \cup {formToken}
    /\ jar' = IF p \notin Supported THEN jar
              ELSE IF mode = "last"
              THEN [jar EXCEPT ![b].consented = bindStateToSession(issued + 1)]
              ELSE [jar EXCEPT ![b].approved = updatedApprovedClients(jar[b].approved, c)]
    /\ UNCHANGED <<mergeVars, cookieVars, authVars, storeVars, identityVars, saveVars, csrfIssued, req>>

(* ----- KV expiry ----- *)

\* a store whose entries were put without expirationTtl
Expire_noTtl(t) ==
    /\ FALSE
    /\ UNCHANGED <<flowVars, mergeVars, cookieVars, authVars, storeVars, identityVars, saveVars>>

\* expirationTtl: the entry disappears when its TTL has passed
Expire(t) ==
    /\ kv[t] # Absent
    /\ kv' = [kv EXCEPT ![t] = Absent]
    /\ fate' = [fate EXCEPT ![t] = "expired"]
    /\ UNCHANGED <<mergeVars, cookieVars, authVars, storeVars, identityVars, saveVars, issued, created, jar, csrfIssued, csrfUsed, req>>

(* ----- GET /callback/:provider ----- *)

NextIdle(r) ==
    /\ req[r].pc = "idle"
    /\ \A q \in ReqIds : q < r => req[q].pc # "idle"
    /\ Served < MaxRequests

\* history: tokens for which a callback has failed the binding check
BindingErrors == {ErrMissingBinding, ErrBindingMismatch}
bindFailed == {req[r].token : r \in {q \in ReqIds : req[q].resp \in BindingErrors}}

\* history: state tokens for which a callback that found the entry in the
\* store has ended with an error response
failedTokens ==
    {req[r].token : r \in {q \in ReqIds : req[q].pc = "failed" /\ req[q].stored # Absent}}

\* the Cookie header of a callback from browser b that carries state token t:
\* the browser's own cookie, or for the Forger any value it likes
CookieChoices(b, t) ==
    {jar[b].consented}
        \cup (IF b = Forger
              THEN {Sha256Hex(t), Sha256Hex(t + 1)}
              ELSE {})

\* the request arrives and is rejected before any KV access: the supported
\* check of the handler, the state parameter check of validateOAuthState
CbReject(r, b, p, t) ==
    /\ NextIdle(r)
    /\ p \notin Supported \/ t = NoState
    /\ t <= issued + 1
    /\ req' = [req EXCEPT ![r] =
                 [IdleReq EXCEPT !.browser = b, !.provider = p, !.token = t,
                    !.cookie = jar[b].consented,
                    !.pc = "failed",
                    !.resp = IF p \notin Supported
                             THEN TextResponse("Unsupported provider", 400)
                             ELSE ErrMissingState]]
    /\ UNCHANGED <<mergeVars, cookieVars, authVars, storeVars, identityVars, saveVars, kv, issued, created, fate, jar, csrfIssued, csrfUsed>>

\* the request arrives and reaches await kv.get("oauth:state:" + state)
CbKvGet(r, b, p, t, ck) ==
    /\ NextIdle(r)
    /\ p \in Supported /\ t # NoState
    /\ t <= issued + 1
    /\ ck \in CookieChoices(b, t)
    /\ req' = [req EXCEPT ![r] =
                 [IdleReq EXCEPT !.browser = b, !.provider = p, !.token = t, !.cookie = ck,
                    !.pc = "check",
                    !.stored = kv[t],
                    !.fateAtGet = fate[t],
                    !.afterBindFail = t \in bindFailed,
                    !.afterFailure = t \in failedTokens]]
    /\ UNCHANGED <<mergeVars, cookieVars, authVars, storeVars, identityVars, saveVars, kv, issued, created, fate, jar, csrfIssued, csrfUsed>>

\* the null check, the binding check and JSON.parse, up to the await of kv.delete
CbCheck(r) ==
    /\ req[r].pc = "check"
    /\ LET out == ValidateOutcome(req[r].stored, req[r].token, req[r].cookie) IN
         /\ req' = [req EXCEPT ![r].pc = IF out = NoResponse THEN "delete" ELSE "failed",
                               ![r].resp = out,
                               ![r].data = IF out = NoResponse
                                           THEN JSONParse(req[r].stored) ELSE <<>>]
         /\ kv' = IF out \in BindingErrors THEN KvOnBindingFailure(kv, req[r].token) ELSE kv
    /\ UNCHANGED <<mergeVars, cookieVars, authVars, storeVars, identityVars, saveVars, issued, created, fate, jar, csrfIssued, csrfUsed>>

\* await kv.delete(...); validateOAuthState returns {data, clearCookie}
CbKvDelete(r) ==
    /\ req[r].pc = "delete"
    /\ kv' = KvDelete(kv, req[r].token)
    /\ fate' = [fate EXCEPT ![req[r].token] = "consumed"]
    /\ req' = [req EXCEPT ![r].pc = "validated", ![r].validated = TRUE]
    /\ UNCHANGED <<mergeVars, cookieVars, authVars, storeVars, identityVars, saveVars, issued, created, jar, csrfIssued, csrfUsed>>

\* the token exchange with the provider
CbExchange(r, outcome) ==
    /\ req[r].pc = "validated"
    /\ req' = [req EXCEPT ![r].pc = IF outcome = "ok" THEN "exchanged" ELSE "failed",
                          ![r].upstream = outcome,
                          ![r].resp = IF outcome = "ok" THEN NoResponse
                                      ELSE ExchangeFailure(outcome)]
    /\ UNCHANGED <<mergeVars, cookieVars, authVars, storeVars, identityVars, saveVars, kv, issued, created, fate, jar, csrfIssued, csrfUsed>>

\* validateOAuthState: the clearCookie it returns
ClearSessionCookie == "__Host-CONSENTED_STATE=; HttpOnly; Secure; Path=/; SameSite=Lax; Max-Age=0"

\* a confirmation page that went out without the Set-Cookie header
completeAuthorization_barePage(data, clearSessionCookie) ==
    LET page == Field(data, "isDirect") = "true" /\ Field(data, "redirectUri") = Undef
    IN  [status |-> IF page THEN 200 ELSE 302, error |-> "", desc |-> "", json |-> FALSE,
         clears |-> ~page /\ clearSessionCookie \notin {Undef, ""},
         host |-> ~page]

\* completeAuthorization: the confirmation page of a direct flow without
\* redirectUri, or the 302 to the redirectTo of the host's
\* completeAuthorization (host); clears says that the response carries
\* Set-Cookie: clearSessionCookie
completeAuthorization(data, clearSessionCookie) ==
    LET page == Field(data, "isDirect") = "true" /\ Field(data, "redirectUri") = Undef
    IN  [status |-> IF page THEN 200 ELSE 302, error |-> "", desc |-> "", json |-> FALSE,
         clears |-> clearSessionCookie \notin {Undef, ""},
         host |-> ~page]

\* the callback from the exchange to the response of completeAuthorization
CbComplete(r) ==
    /\ req[r].pc = "exchanged"
    /\ LET resp == completeAuthorization(req[r].data, ClearSessionCookie)
       IN  /\ req' = [req EXCEPT ![r].pc = "completed", ![r].resp = resp]
           /\ jar' = IF resp.clears THEN [jar EXCEPT ![req[r].browser].consented = NoCookie]
                     ELSE jar
    /\ UNCHANGED <<mergeVars, cookieVars, authVars, storeVars, identityVars, saveVars, kv, issued, created, fate, csrfIssued, csrfUsed>>

Next ==
    \/ \E b \in Users, d \in DirectInputs : AuthorizeDirect(b, d[1], d[2])
    \/ \E b \in Users, c \in Clients, p \in FlowProviders \cap Supported :
          AuthorizeApproved(b, c, p)
    \/ \E b \in Users, c \in Clients : AuthorizeConsent(b, c)
    \/ \E b \in Users, f \in CsrfTokens : PostAuthorizeRejected(b, f)
    \/ \E b \in Users, f \in CsrfTokens, c \in Clients, p \in FlowProviders, m \in HeaderModes :
          PostAuthorize(b, f, c, p, m)
    \/ \E t \in Tokens : Expire(t)
    \/ \E r \in ReqIds, b \in Users, p \in FlowProviders, t \in Tokens \cup {NoState} :
          CbReject(r, b, p, t)
    \/ \E r \in ReqIds, b \in Browsers, p \in FlowProviders, t \in Tokens :
          \E ck \in CookieChoices(b, t) : CbKvGet(r, b, p, t, ck)
    \/ \E r \in ReqIds : CbCheck(r)
    \/ \E r \in ReqIds : CbKvDelete(r)
    \/ \E r \in ReqIds, o \in ExchangeOutcomes : CbExchange(r, o)
    \/ \E r \in ReqIds : CbComplete(r)

\* the :provider of a callback URL is whatever the request says: the provider
\* the flow was started for, another supported one, or an unsupported one
CallbackProviders == FlowProviders \cup {"gmail"}

NextCallback ==
    \/ \E b \in Users, d \in DirectInputs : AuthorizeDirect(b, d[1], d[2])
    \/ \E b \in Users, c \in Clients, p \in FlowProviders \cap Supported :
          AuthorizeApproved(b, c, p)
    \/ \E b \in Users, c \in Clients : AuthorizeConsent(b, c)
    \/ \E b \in Users, f \in CsrfTokens : PostAuthorizeRejected(b, f)
    \/ \E b \in Users, f \in CsrfTokens, c \in Clients, p \in FlowProviders, m \in HeaderModes :
          PostAuthorize(b, f, c, p, m)
    \/ \E t \in Tokens : Expire(t)
    \/ \E r \in ReqIds, b \in Users, p \in CallbackProviders, t \in Tokens \cup {NoState} :
          CbReject(r, b, p, t)
    \/ \E r \in ReqIds, b \in Browsers, p \in CallbackProviders, t \in Tokens :
          \E ck \in CookieChoices(b, t) : CbKvGet(r, b, p, t, ck)
    \/ \E r \in ReqIds : CbCheck(r)
    \/ \E r \in ReqIds : CbKvDelete(r)
    \/ \E r \in ReqIds, o \in ExchangeOutcomes : CbExchange(r, o)
    \/ \E r \in ReqIds : CbComplete(r)

(* ------------------- callback: credentials and identity ----------------- *)
(* GET /callback/:provider after validateOAuthState, in src/src/oauth-handler.ts *)
(* and in its later version src/unnamed/part_001.                           *)

\* flows started (state payloads stored) in one run
MaxFlows == 3

\* a falsy token: undefined or ""
NoToken == 0

ProviderNames == {"github", "google", "gmail", "calendar", "drive", "notion", "slack"}

\* the Props property that holds a provider's access token, refresh token
AccessField(q) ==
    CASE q \in {"github", "google"} -> "accessToken"
      [] q = "gmail" -> "gmailAccessToken"
      [] q = "calendar" -> "calendarAccessToken"
      [] q = "drive" -> "driveAccessToken"
      [] q = "notion" -> "notionAccessToken"
      [] q = "slack" -> "slackAccessToken"

RefreshField(q) ==
    CASE q \in {"github", "google"} -> "noRefreshToken"
      [] q = "gmail" -> "gmailRefreshToken"
      [] q = "calendar" -> "calendarRefreshToken"
      [] q = "drive" -> "driveRefreshToken"
      [] q = "notion" -> "notionRefreshToken"
      [] q = "slack" -> "slackRefreshToken"

\* interface Props; present is FALSE for null / undefined, noRefreshToken is the
\* refresh token of the providers Props has no property for
NoProps ==
    [present |-> FALSE, accessToken |-> NoToken, login |-> Undef, email |-> Undef, name |-> Undef,
     gmailAccessToken |-> NoToken, gmailRefreshToken |-> NoToken,
     calendarAccessToken |-> NoToken, calendarRefreshToken |-> NoToken,
     driveAccessToken |-> NoToken, driveRefreshToken |-> NoToken,
     notionAccessToken |-> NoToken, notionRefreshToken |-> NoToken,
     slackAccessToken |-> NoToken, slackRefreshToken |-> NoToken,
     noRefreshToken |-> NoToken,
     connectedIntegrations |-> <<>>]

\* an entry of the providers map; NoCredential is undefined, which the
\* handlers filter out of the map
Credential(accessToken, refreshToken) == [accessToken |-> accessToken, refreshToken |-> refreshToken]
NoCredential == Credential(NoToken, NoToken)

\* existingProps.xAccessToken ? { accessToken, refreshToken } : undefined
ExistingCredential(existingProps, q) ==
    IF existingProps[AccessField(q)] # NoToken
    THEN Credential(existingProps[AccessField(q)], existingProps[RefreshField(q)])
    ELSE NoCredential

\* ... ? { accessToken } : undefined
ExistingAccessOnly(existingProps, q) ==
    IF existingProps[AccessField(q)] # NoToken
    THEN Credential(existingProps[AccessField(q)], NoToken)
    ELSE NoCredential

\* a github branch that filed the token of the anchor under calendar too
GithubMergedProviders_alsoCalendar(existingProps, accessToken) ==
    [q \in ProviderNames |->
        IF q \in {"github", "calendar"} THEN Credential(accessToken, NoToken)
        ELSE IF ~existingProps.present THEN NoCredential
        ELSE IF q \in {"gmail", "drive"} THEN ExistingCredential(existingProps, q)
        ELSE IF q = "notion" THEN ExistingAccessOnly(existingProps, q)
        ELSE NoCredential]

\* oauth-handler.ts, github branch: mergedProviders
GithubMergedProviders(existingProps, accessToken) ==
    [q \in ProviderNames |->
        IF q = "github" THEN Credential(accessToken, NoToken)
        ELSE IF ~existingProps.present THEN NoCredential
        ELSE IF q \in {"gmail", "calendar", "drive"} THEN ExistingCredential(existingProps, q)
        ELSE IF q = "notion" THEN ExistingAccessOnly(existingProps, q)
        ELSE NoCredential]

\* oauth-handler.ts, notion branch: mergedProviders
NotionMergedProviders(existingProps, accessToken) ==
    [q \in ProviderNames |->
        IF q = "notion" THEN Credential(accessToken, NoToken)
        ELSE IF ~existingProps.present THEN NoCredential
        ELSE IF q = "github" THEN ExistingAccessOnly(existingProps, q)
        ELSE IF q \in {"gmail", "calendar", "drive"} THEN ExistingCredential(existingProps, q)
        ELSE NoCredential]

\* oauth-handler.ts, Google branch: the entry of one Google service,
\*   provider === q || existingProps.qAccessToken ? undefined
\*     : existingProps.qAccessToken ? { ... } : undefined
GoogleServiceEntry(provider, existingProps, q) ==
    IF provider = q \/ existingProps[AccessField(q)] # NoToken THEN NoCredential
    ELSE ExistingCredential(existingProps, q)

\* oauth-handler.ts, Google branch: mergedProviders
GoogleMergedProviders(provider, existingProps, accessToken, refreshToken) ==
    [q \in ProviderNames |->
        IF q = provider THEN Credential(accessToken, refreshToken)
        ELSE IF ~existingProps.present THEN NoCredential
        ELSE IF q = "github" THEN ExistingAccessOnly(existingProps, q)
        ELSE IF q \in {"gmail", "calendar", "drive"} THEN GoogleServiceEntry(provider, existingProps, q)
        ELSE IF q = "notion" THEN ExistingAccessOnly(existingProps, q)
        ELSE NoCredential]

\* a merge that appended the provider without looking
mergedIntegrations_append(existingProps, provider) ==
    Append(existingProps.connectedIntegrations, provider)

\* Array.from(new Set([...(existingProps?.connectedIntegrations || []), provider]))
mergedIntegrations(existingProps, provider) ==
    LET existing == existingProps.connectedIntegrations
    IN  IF \E i \in DOMAIN existing : existing[i] = provider THEN existing
        ELSE Append(existing, provider)

\* identities the upstream providers report
GitHubUser == [login |-> "octo", name |-> "Octo Cat", email |-> "octo@gh"]
GoogleUserInfo == [login |-> "u", name |-> "U G", email |-> "u@g"]
\* oauth-handler.ts: the fallbacks when the provider reports nobody
GoogleFallbackUser == [login |-> "google-user", name |-> "Google User", email |-> ""]
NotionFallbackUser == [login |-> "notion-user", name |-> "Notion Workspace", email |-> ""]
\* oauth-handler.ts, notion branch: the owner the token response names
NotionOwnerUser == [login |-> "n1", name |-> "N O", email |-> "o@n"]

\* { login: existingProps.login, name: existingProps.name, email: existingProps.email }
ExistingUser(existingProps) ==
    [login |-> existingProps.login, name |-> existingProps.name, email |-> existingProps.email]

\* a Google branch that asked the userinfo endpoint before looking at
\* existingProps
HandlerUserData_fetchFirst(provider, existingProps, userInfoOk) ==
    IF provider = "github" THEN GitHubUser
    ELSE IF provider # "notion" /\ userInfoOk THEN GoogleUserInfo
    ELSE IF existingProps.present THEN ExistingUser(existingProps)
    ELSE IF provider = "notion"
         THEN IF userInfoOk THEN NotionOwnerUser ELSE NotionFallbackUser
    ELSE GoogleFallbackUser

\* a github branch that preferred the identity of existingProps, as the
\* other branches do
HandlerUserData_preferExisting(provider, existingProps, userInfoOk) ==
    IF existingProps.present THEN ExistingUser(existingProps)
    ELSE IF provider = "github" THEN GitHubUser
    ELSE IF provider = "notion"
         THEN IF userInfoOk THEN NotionOwnerUser ELSE NotionFallbackUser
    ELSE IF userInfoOk THEN GoogleUserInfo
    ELSE GoogleFallbackUser

\* oauth-handler.ts: userData of the three branches; userInfoOk says that the
\* provider reports a user: the Notion token response names its owner, the
\* userinfo endpoint of Google answers
HandlerUserData(provider, existingProps, userInfoOk) ==
    IF provider = "github" THEN GitHubUser
    ELSE IF existingProps.present THEN ExistingUser(existingProps)
    ELSE IF provider = "notion"
         THEN IF userInfoOk THEN NotionOwnerUser ELSE NotionFallbackUser
    ELSE IF userInfoOk THEN GoogleUserInfo
    ELSE GoogleFallbackUser

\* oauth-handler.ts: providers of the three branches; the Google branch takes
\* the whole token response as the access token and leaves refreshToken undefined
HandlerProviders(provider, existingProps, accessToken) ==
    IF provider = "github" THEN GithubMergedProviders(existingProps, accessToken)
    ELSE IF provider = "notion" THEN NotionMergedProviders(existingProps, accessToken)
    ELSE GoogleMergedProviders(provider, existingProps, accessToken, NoToken)

\* a bundle that left the tokens of the Google services out
HandlerProps_anchorOnly(providers, userData, connectedIntegrations) ==
    [NoProps EXCEPT
        !.present = TRUE,
        !.accessToken = providers["github"].accessToken,
        !.login = userData.login, !.email = userData.email, !.name = userData.name,
        !.notionAccessToken = providers["notion"].accessToken,
        !.connectedIntegrations = connectedIntegrations]

\* oauth-handler.ts completeAuthorization: the props handed to the host
HandlerProps(providers, userData, connectedIntegrations) ==
    [NoProps EXCEPT
        !.present = TRUE,
        !.accessToken = providers["github"].accessToken,
        !.login = userData.login, !.email = userData.email, !.name = userData.name,
        !.gmailAccessToken = providers["gmail"].accessToken,
        !.gmailRefreshToken = providers["gmail"].refreshToken,
        !.calendarAccessToken = providers["calendar"].accessToken,
        !.calendarRefreshToken = providers["calendar"].refreshToken,
        !.driveAccessToken = providers["drive"].accessToken,
        !.driveRefreshToken = providers["drive"].refreshToken,
        !.notionAccessToken = providers["notion"].accessToken,
        !.connectedIntegrations = connectedIntegrations]

(* ----- src/unnamed/part_001 ----- *)

UnknownUser == [login |-> Undef, name |-> "Unknown User", email |-> "unknown-user@example.com"]
Part001GoogleUser == [login |-> Undef, name |-> "U G", email |-> "u@g"]

\* the integration table and the user row of the one user, u@g
NoIntegrations == [exists |-> FALSE, name |-> Undef, rows |-> [q \in ProviderNames |-> NoCredential]]

\* order in which getUserIntegrations returns the rows
RowOrder == <<"google", "gmail", "calendar", "drive", "notion", "slack">>

\* handleDirectProviderAuth of part_001: existingProps from the `user` query
\* parameter and the database
LoadExistingProps(table, googleEmail) ==
    IF googleEmail = Undef THEN NoProps
    ELSE IF ~table.exists THEN
        [NoProps EXCEPT !.present = TRUE, !.email = googleEmail, !.name = googleEmail]
    ELSE
        [NoProps EXCEPT
            !.present = TRUE, !.email = googleEmail, !.name = table.name,
            !.accessToken = table.rows["google"].accessToken,
            !.gmailAccessToken = table.rows["gmail"].accessToken,
            !.gmailRefreshToken = table.rows["gmail"].refreshToken,
            !.calendarAccessToken = table.rows["calendar"].accessToken,
            !.calendarRefreshToken = table.rows["calendar"].refreshToken,
            !.driveAccessToken = table.rows["drive"].accessToken,
            !.driveRefreshToken = table.rows["drive"].refreshToken,
            !.notionAccessToken = table.rows["notion"].accessToken,
            !.slackAccessToken = table.rows["slack"].accessToken,
            !.connectedIntegrations =
                SelectSeq(RowOrder, LAMBDA q : table.rows[q] # NoCredential)]

\* part_001 callback: userData before the exchange
InitialUserData(existingProps) ==
    IF existingProps.present
    THEN [login |-> Undef, name |-> existingProps.name, email |-> existingProps.email]
    ELSE UnknownUser

\* a falsy string: undefined or ""
Falsy(text) == text \in {Undef, ""}

\* resolveGoogleIdentity
resolveGoogleIdentity(userData, existingProps) ==
    IF (Falsy(userData.email) \/ userData.email = "unknown-user@example.com")
            /\ existingProps.present /\ ~Falsy(existingProps.email)
    THEN [login |-> Undef,
          name |-> IF Falsy(existingProps.name) THEN userData.name ELSE existingProps.name,
          email |-> existingProps.email]
    ELSE userData

\* part_001 callback: mergedProviders, the existing entries and then the
\* entry of the provider just exchanged
Part001Providers(provider, existingProps, accessToken, refreshToken) ==
    [q \in ProviderNames |->
        IF q = provider THEN Credential(accessToken, refreshToken)
        ELSE IF ~existingProps.present \/ q = "github" THEN NoCredential
        ELSE IF q = "google" THEN ExistingAccessOnly(existingProps, q)
        ELSE ExistingCredential(existingProps, q)]

\* part_001 callback: userData after the exchange and resolveGoogleIdentity
Part001UserData(provider, existingProps) ==
    resolveGoogleIdentity(
        IF provider = "google" THEN Part001GoogleUser ELSE InitialUserData(existingProps),
        existingProps)

\* part_001 callback: user row and saveIntegration, done in the google branch
\* for google and after resolveGoogleIdentity for the others when the e-mail
\* is not the placeholder
Part001Persist(table, provider, userData, credential) ==
    IF provider = "google" THEN
        [exists |-> TRUE, name |-> userData.name,
         rows |-> [table.rows EXCEPT !["google"] = credential]]
    ELSE IF ~Falsy(userData.email) /\ userData.email # "unknown-user@example.com" THEN
        [exists |-> TRUE, name |-> IF table.exists THEN table.name ELSE userData.name,
         rows |-> [table.rows EXCEPT ![provider] = credential]]
    ELSE table

\* how the database behaves during one callback: every call answers, every
\* call throws, or the user row is found or inserted and saveIntegration throws
DbFailures == {"none", "lookup", "save"}

\* part_001 callback: the table after a database call threw inside the try
\* block; with "save" the user row has been inserted already
Part001PersistThrows(table, provider, userData, dbFailure) ==
    IF dbFailure = "lookup" THEN table
    ELSE IF provider = "google" THEN
        [exists |-> TRUE, name |-> userData.name, rows |-> table.rows]
    ELSE IF ~Falsy(userData.email) /\ userData.email # "unknown-user@example.com" THEN
        [exists |-> TRUE, name |-> IF table.exists THEN table.name ELSE userData.name,
         rows |-> table.rows]
    ELSE table

\* a callback that let the error of the database out of its catch block
Part001Completes_rethrow(dbFailure) == dbFailure = "none"

\* part_001 callback: the catch blocks around the database calls log the
\* error and the handler goes on to completeAuthorization
Part001Completes(dbFailure) == TRUE

\* part_001 completeAuthorization, standard flow: entries and names of the
\* saved integrations are added to what the callback passed
WithSaved(table, providers) ==
    [q \in ProviderNames |-> IF providers[q] = NoCredential THEN table.rows[q] ELSE providers[q]]

RECURSIVE AppendAllNew(_, _)
AppendAllNew(list, more) ==
    IF Len(more) = 0 THEN list
    ELSE AppendAllNew(
            IF \E i \in DOMAIN list : list[i] = more[1] THEN list ELSE Append(list, more[1]),
            Tail(more))

\* part_001 completeAuthorization: the props handed to the host
Part001Props(providers, userData, connectedIntegrations) ==
    [NoProps EXCEPT
        !.present = TRUE,
        !.accessToken = providers["google"].accessToken,
        !.email = userData.email, !.name = userData.name,
        !.gmailAccessToken = providers["gmail"].accessToken,
        !.gmailRefreshToken = providers["gmail"].refreshToken,
        !.calendarAccessToken = providers["calendar"].accessToken,
        !.calendarRefreshToken = providers["calendar"].refreshToken,
        !.driveAccessToken = providers["drive"].accessToken,
        !.driveRefreshToken = providers["drive"].refreshToken,
        !.notionAccessToken = providers["notion"].accessToken,
        !.slackAccessToken = providers["slack"].accessToken,
        !.slackRefreshToken = providers["slack"].refreshToken,
        !.connectedIntegrations = connectedIntegrations]

\* providers and `user` parameters the flows of a run are started with
HandlerInputs == {"github", "gmail", "calendar", "notion"}
Part001Inputs == {"google", "calendar", "slack"}
GoogleEmails == {Undef, "u@g"}

\* oauthReqInfo.scope of the authorization requests of a run
Scopes == {<<>>, <<"calendar">>}

StatePayload(handler, isDirect, provider, existingProps, scope) ==
    [handler |-> handler, isDirect |-> isDirect, requestedProvider |-> provider,
     existingProps |-> existingProps, scope |-> scope]

NoCall ==
    [handler |-> "none", provider |-> Undef, isDirect |-> FALSE, existingProps |-> NoProps,
     exchanged |-> NoToken, dbFailure |-> "none", completed |-> FALSE, scope |-> <<>>,
     providers |-> [q \in ProviderNames |-> NoCredential],
     userData |-> UnknownUser, connectedIntegrations |-> <<>>, props |-> NoProps]

InitMerge ==
    /\ flows = {}
    /\ grants = {}
    /\ integrations = NoIntegrations
    /\ exchanges = 0
    /\ last = NoCall

StartFlow(payload) ==
    /\ Cardinality(flows) + exchanges < MaxFlows
    /\ flows' = flows \cup {payload}
    /\ UNCHANGED <<flowVars, cookieVars, authVars, storeVars, identityVars, saveVars, grants, integrations, exchanges, last>>

\* oauth-handler.ts, GET or POST /authorize of the standard flow; a request
\* that names scopes is one without a provider parameter, which gets github
HandlerStartStandard(p, scope) ==
    /\ scope # <<>> => p = "github"
    /\ StartFlow(StatePayload("oauth-handler", FALSE, p, NoProps, scope))

\* oauth-handler.ts, handleDirectProviderAuth: existingProps are the props of
\* the bearer token, null without a token the host can verify
HandlerStartDirect(p, existingProps) ==
    StartFlow(StatePayload("oauth-handler", TRUE, p, existingProps, <<>>))

\* part_001, GET or POST /authorize of the standard flow; a request that
\* names scopes is one without a provider parameter, which gets google
Part001StartStandard(p, scope) ==
    /\ scope # <<>> => p = "google"
    /\ StartFlow(StatePayload("part_001", FALSE, p, NoProps, scope))

\* part_001, handleDirectProviderAuth
Part001StartDirect(p, googleEmail) ==
    StartFlow(StatePayload("part_001", TRUE, p, LoadExistingProps(integrations, googleEmail),
                           <<>>))

\* a callback whose token exchange fails answers with the error; its state is spent
CallbackExchangeFails(f) ==
    /\ f \in flows
    /\ flows' = flows \ {f}
    /\ exchanges' = exchanges + 1
    /\ UNCHANGED <<flowVars, cookieVars, authVars, storeVars, identityVars, saveVars, grants, integrations, last>>

\* oauth-handler.ts, GET /callback/:provider from the exchange to completeAuthorization
HandlerCallback(f, userInfoOk) ==
    /\ f \in flows
    /\ f.handler = "oauth-handler"
    /\ LET provider == f.requestedProvider
           accessToken == exchanges + 1
           providers == HandlerProviders(provider, f.existingProps, accessToken)
           userData == HandlerUserData(provider, f.existingProps, userInfoOk)
           connected == mergedIntegrations(f.existingProps, provider)
           props == IF f.isDirect THEN NoProps ELSE HandlerProps(providers, userData, connected)
       IN  /\ last' = [handler |-> f.handler, provider |-> provider, isDirect |-> f.isDirect,
                       existingProps |-> f.existingProps, exchanged |-> accessToken,
                       dbFailure |-> "none", completed |-> TRUE, scope |-> f.scope,
                       providers |-> providers, userData |-> userData,
                       connectedIntegrations |-> connected, props |-> props]
           /\ grants' = IF f.isDirect THEN grants ELSE grants \cup {props}
    /\ flows' = flows \ {f}
    /\ exchanges' = exchanges + 1
    /\ UNCHANGED <<flowVars, cookieVars, authVars, storeVars, identityVars, saveVars, integrations>>

\* part_001, GET /callback/:provider from the exchange to completeAuthorization
Part001Callback(f, dbFailure) ==
    /\ f \in flows
    /\ f.handler = "part_001"
    /\ LET provider == f.requestedProvider
           accessToken == exchanges + 1
           providers == Part001Providers(provider, f.existingProps, accessToken, accessToken)
           userData == Part001UserData(provider, f.existingProps)
           connected == mergedIntegrations(f.existingProps, provider)
           writes == provider = "google"
                        \/ (~Falsy(userData.email) /\ userData.email # "unknown-user@example.com")
           table == IF dbFailure = "none"
                    THEN Part001Persist(integrations, provider, userData, providers[provider])
                    ELSE Part001PersistThrows(integrations, provider, userData, dbFailure)
           loadsSaved == ~f.isDirect /\ dbFailure # "lookup"
                            /\ table.exists /\ userData.email = "u@g"
           props ==
               IF f.isDirect THEN NoProps
               ELSE IF loadsSaved
                    THEN Part001Props(WithSaved(table, providers), userData,
                            AppendAllNew(connected,
                                SelectSeq(RowOrder, LAMBDA q : table.rows[q] # NoCredential)))
               ELSE Part001Props(providers, userData, connected)
       IN  /\ dbFailure # "none" => writes
           /\ last' = IF Part001Completes(dbFailure)
                      THEN [handler |-> f.handler, provider |-> provider, isDirect |-> f.isDirect,
                            existingProps |-> f.existingProps, exchanged |-> accessToken,
                            dbFailure |-> dbFailure, completed |-> TRUE, scope |-> f.scope,
                            providers |-> providers, userData |-> userData,
                            connectedIntegrations |-> connected, props |-> props]
                      ELSE [NoCall EXCEPT !.handler = f.handler, !.provider = provider,
                                          !.isDirect = f.isDirect,
                                          !.existingProps = f.existingProps,
                                          !.exchanged = accessToken, !.dbFailure = dbFailure,
                                          !.scope = f.scope]
           /\ integrations' = table
    /\ flows' = flows \ {f}
    /\ exchanges' = exchanges + 1
    /\ UNCHANGED <<flowVars, cookieVars, authVars, storeVars, identityVars, saveVars, grants>>

NextMerge ==
    \/ \E p \in HandlerInputs, sc \in Scopes : HandlerStartStandard(p, sc)
    \/ \E p \in HandlerInputs, e \in grants \cup {NoProps} : HandlerStartDirect(p, e)
    \/ \E p \in Part001Inputs, sc \in Scopes : Part001StartStandard(p, sc)
    \/ \E p \in Part001Inputs, u \in GoogleEmails : Part001StartDirect(p, u)
    \/ \E f \in flows : CallbackExchangeFails(f)
    \/ \E f \in flows, ok \in BOOLEAN : HandlerCallback(f, ok)
    \/ \E f \in flows, d \in DbFailures : Part001Callback(f, d)


(* ----------------- approved-clients cookie, byte by byte ---------------- *)
(* workers-oauth-utils.ts: a cookie value is a sequence of one-character    *)
(* strings, a payload is a sequence of bytes.                               *)

Base64Alphabet ==
    <<"A", "B", "C", "D", "E", "F", "G", "H", "I", "J", "K", "L", "M",
      "N", "O", "P", "Q", "R", "S", "T", "U", "V", "W", "X", "Y", "Z",
      "a", "b", "c", "d", "e", "f", "g", "h", "i", "j", "k", "l", "m",
      "n", "o", "p", "q", "r", "s", "t", "u", "v", "w", "x", "y", "z",
      "0", "1", "2", "3", "4", "5", "6", "7", "8", "9", "+", "/">>

HexDigits == <<"0", "1", "2", "3", "4", "5", "6", "7", "8", "9", "a", "b", "c", "d", "e", "f">>
UpperHexDigits == <<"0", "1", "2", "3", "4", "5", "6", "7", "8", "9", "A", "B", "C", "D", "E", "F">>

\* position of ch in seq, 0 when it does not occur
IndexOf(seq, ch) ==
    IF \E i \in DOMAIN seq : seq[i] = ch THEN CHOOSE i \in DOMAIN seq : seq[i] = ch ELSE 0

Base64Value(ch) == IndexOf(Base64Alphabet, ch) - 1

Base64Char(v) == Base64Alphabet[v + 1]

\* btoa: three bytes to four characters, "=" padding on the last group
RECURSIVE btoa(_)
btoa(bytes) ==
    IF Len(bytes) = 0 THEN <<>>
    ELSE IF Len(bytes) = 1 THEN
        LET n == bytes[1] * 16
        IN  <<Base64Char(n \div 64), Base64Char(n % 64), "=", "=">>
    ELSE IF Len(bytes) = 2 THEN
        LET n == (bytes[1] * 256 + bytes[2]) * 4
        IN  <<Base64Char(n \div 4096), Base64Char((n \div 64) % 64), Base64Char(n % 64), "=">>
    ELSE
        LET n == bytes[1] * 65536 + bytes[2] * 256 + bytes[3]
        IN  <<Base64Char(n \div 262144), Base64Char((n \div 4096) % 64),
              Base64Char((n \div 64) % 64), Base64Char(n % 64)>>
            \o btoa(SubSeq(bytes, 4, Len(bytes)))

\* atob (forgiving-base64 decode): ASCII whitespace is removed, then one or
\* two trailing "=" of a text whose length is a multiple of four
Base64Data(text) ==
    LET d == SelectSeq(text, LAMBDA ch : ch # " ")
        n == Len(d)
    IN  IF n = 0 \/ n % 4 # 0 \/ d[n] # "=" THEN d
        ELSE IF d[n - 1] = "=" THEN SubSeq(d, 1, n - 2)
        ELSE SubSeq(d, 1, n - 1)

\* atob throws InvalidCharacterError
atobThrows(text) ==
    LET d == Base64Data(text)
    IN  Len(d) % 4 = 1 \/ \E i \in DOMAIN d : Base64Value(d[i]) < 0

\* the bytes of the sextets; the bits left over in the last group are dropped
RECURSIVE DecodeSextets(_)
DecodeSextets(d) ==
    IF Len(d) < 2 THEN <<>>
    ELSE IF Len(d) = 2 THEN
        LET n == Base64Value(d[1]) * 64 + Base64Value(d[2])
        IN  <<n \div 16>>
    ELSE IF Len(d) = 3 THEN
        LET n == Base64Value(d[1]) * 4096 + Base64Value(d[2]) * 64 + Base64Value(d[3])
        IN  <<n \div 1024, (n \div 4) % 256>>
    ELSE
        LET n == Base64Value(d[1]) * 262144 + Base64Value(d[2]) * 4096
                    + Base64Value(d[3]) * 64 + Base64Value(d[4])
        IN  <<n \div 65536, (n \div 256) % 256, n % 256>>
            \o DecodeSextets(SubSeq(d, 5, Len(d)))

atob(text) == DecodeSextets(Base64Data(text))

\* client IDs of the cookie and their bytes
CookieClients == {"c1", "c2"}
ClientIdBytes(clientId) == IF clientId = "c1" THEN <<99, 49>> ELSE <<99, 50>>

\* the arrays of client IDs a cookie can carry
ClientLists == {<<>>} \cup {<<c>> : c \in CookieClients}
                  \cup {pair \in CookieClients \X CookieClients : pair[1] # pair[2]}

\* JSON.stringify of an array of strings: ["c1","c2"]
RECURSIVE JoinQuoted(_)
JoinQuoted(list) ==
    IF Len(list) = 0 THEN <<>>
    ELSE <<34>> \o ClientIdBytes(list[1]) \o <<34>>
         \o (IF Len(list) = 1 THEN <<>> ELSE <<44>> \o JoinQuoted(Tail(list)))

JSONStringifyClients(list) == <<91>> \o JoinQuoted(list) \o <<93>>

\* JSON.parse and the Array.isArray / every-item-is-a-string test of
\* getApprovedClientsFromCookie: the array whose text the payload is
IsClientsJson(payload) == \E list \in ClientLists : JSONStringifyClients(list) = payload
JSONParseClients(payload) == CHOOSE list \in ClientLists : JSONStringifyClients(list) = payload

RECURSIVE ByteSum(_)
ByteSum(bytes) == IF Len(bytes) = 0 THEN 0 ELSE bytes[1] + ByteSum(Tail(bytes))

RECURSIVE PositionSum(_, _)
PositionSum(bytes, position) ==
    IF Len(bytes) = 0 THEN 0
    ELSE position * bytes[1] + PositionSum(Tail(bytes), position + 1)

\* crypto.subtle.sign("HMAC", key, data) with the tag cut to two bytes: a keyed
\* checksum that changes whenever one byte, or two neighbouring bytes, of the
\* data change, as a change of one base64 character makes them
Hmac(data, key) ==
    <<(key + ByteSum(data)) % 256, (key + PositionSum(data, 1)) % 256>>

\* values of COOKIE_ENCRYPTION_KEY
Secrets == {26, 115, 200}

\* b.toString(16).padStart(2, "0") of every byte, joined
RECURSIVE HexOfBytes(_)
HexOfBytes(bytes) ==
    IF Len(bytes) = 0 THEN <<>>
    ELSE <<HexDigits[(bytes[1] \div 16) + 1], HexDigits[(bytes[1] % 16) + 1]>> \o HexOfBytes(Tail(bytes))

signData(data, key) == HexOfBytes(Hmac(data, key))

\* value of a hexadecimal digit of either case, -1 for any other character
HexValue(ch) ==
    IF IndexOf(HexDigits, ch) > 0 THEN IndexOf(HexDigits, ch) - 1
    ELSE IndexOf(UpperHexDigits, ch) - 1

\* Number.parseInt(chunk, 16) stored into a Uint8Array: leading whitespace
\* and a sign are skipped, digits are read up to the first character that is
\* not one, "0x" alone and "no digits" are NaN, NaN is stored as 0 and a
\* negative number modulo 256
Uint8OfParseInt(chunk) ==
    LET c1 == chunk[1]
        v1 == HexValue(c1)
        v2 == IF Len(chunk) = 2 THEN HexValue(chunk[2]) ELSE -1
        x2 == Len(chunk) = 2 /\ chunk[2] \in {"x", "X"}
    IN  IF c1 \in {" ", "+"} THEN (IF v2 >= 0 THEN v2 ELSE 0)
        ELSE IF c1 = "-" THEN (IF v2 > 0 THEN 256 - v2 ELSE 0)
        ELSE IF c1 = "0" /\ x2 THEN 0
        ELSE IF v1 >= 0 THEN (IF v2 >= 0 THEN 16 * v1 + v2 ELSE v1)
        ELSE 0

\* signatureHex.match(/.{1,2}/g) mapped through parseInt
RECURSIVE SignatureBytes(_)
SignatureBytes(signatureHex) ==
    IF Len(signatureHex) = 0 THEN <<>>
    ELSE IF Len(signatureHex) = 1 THEN <<Uint8OfParseInt(signatureHex)>>
    ELSE <<Uint8OfParseInt(SubSeq(signatureHex, 1, 2))>>
         \o SignatureBytes(SubSeq(signatureHex, 3, Len(signatureHex)))

\* verifySignature: match() of an empty string is null and the throw is caught
verifySignature(signatureHex, data, key) ==
    /\ Len(signatureHex) > 0
    /\ SignatureBytes(signatureHex) = Hmac(data, key)

\* the cookie as getApprovedClientsFromCookie finds it in the Cookie header:
\* the header is split at ";" and each piece is trimmed
RECURSIVE TrimEnd(_)
TrimEnd(text) ==
    IF Len(text) > 0 /\ text[Len(text)] = " " THEN TrimEnd(SubSeq(text, 1, Len(text) - 1)) ELSE text

CookieValue(raw) ==
    LET semi == IndexOf(raw, ";")
    IN  TrimEnd(IF semi = 0 THEN raw ELSE SubSeq(raw, 1, semi - 1))

\* results of getApprovedClientsFromCookie
Threw == [threw |-> TRUE, clients |-> <<>>]
NullClients == [threw |-> FALSE, clients |-> <<>>]

\* getApprovedClientsFromCookie; null and [] are not told apart, neither
\* caller does
getApprovedClientsFromCookie(raw, key) ==
    LET cookieValue == CookieValue(raw)
        dots == {i \in DOMAIN cookieValue : cookieValue[i] = "."}
        dot == CHOOSE i \in dots : TRUE
        signatureHex == SubSeq(cookieValue, 1, dot - 1)
        base64Payload == SubSeq(cookieValue, dot + 1, Len(cookieValue))
        payload == atob(base64Payload)
    IN  IF raw = NoCookie THEN NullClients
        ELSE IF Cardinality(dots) # 1 THEN NullClients
        ELSE IF atobThrows(base64Payload) THEN Threw
        ELSE IF ~verifySignature(signatureHex, payload, key) THEN NullClients
        ELSE IF ~IsClientsJson(payload) THEN NullClients
        ELSE [threw |-> FALSE, clients |-> JSONParseClients(payload)]

\* isClientApproved: approvedClients?.includes(clientId) ?? false
isClientApproved(raw, clientId, key) ==
    LET approvedClients == getApprovedClientsFromCookie(raw, key)
    IN  IF approvedClients.threw THEN "throws"
        ELSE IF \E i \in DOMAIN approvedClients.clients : approvedClients.clients[i] = clientId
             THEN "true"
        ELSE "false"

\* addApprovedClient: `${signature}.${btoa(payload)}`
addApprovedClient(raw, clientId, key) ==
    LET payload ==
            JSONStringifyClients(
                updatedApprovedClients(getApprovedClientsFromCookie(raw, key).clients, clientId))
    IN  signData(payload, key) \o <<".">> \o btoa(payload)

\* characters a changed byte is replaced with
TamperChars == {"A", "a", "0", "g", "!", ".", ";", " ", "="}

\* before: the list addApprovedClient read from the cookie of the request
NoVerdict == [client |-> Undef, result |-> "none", before |-> <<>>]

InitCookie ==
    /\ approvedCookie = NoCookie
    /\ pristine = NoCookie
    /\ verdict = NoVerdict

\* POST /authorize as far as the cookie goes: addApprovedClient and the
\* Set-Cookie of its value.  When reading the old cookie throws, the handler
\* answers 500 and sets nothing.
CookieApprove(clientId) ==
    /\ ~getApprovedClientsFromCookie(approvedCookie, secret).threw
    /\ approvedCookie' = addApprovedClient(approvedCookie, clientId, secret)
    /\ pristine' = approvedCookie'
    /\ verdict' = [client |-> clientId, result |-> "added",
                   before |-> getApprovedClientsFromCookie(approvedCookie, secret).clients]
    /\ UNCHANGED <<flowVars, mergeVars, authVars, storeVars, identityVars, saveVars, secret>>

\* one byte of the browser's copy of an issued cookie is changed
CookieTamper(i, ch) ==
    /\ approvedCookie # NoCookie
    /\ approvedCookie = pristine
    /\ i \in DOMAIN approvedCookie
    /\ approvedCookie[i] # ch
    /\ approvedCookie' = [approvedCookie EXCEPT ![i] = ch]
    /\ verdict' = NoVerdict
    /\ UNCHANGED <<flowVars, mergeVars, authVars, storeVars, identityVars, saveVars, secret, pristine>>

\* GET /authorize as far as the cookie goes: isClientApproved
CookieCheck(clientId) ==
    /\ verdict' = [client |-> clientId,
                   result |-> isClientApproved(approvedCookie, clientId, secret),
                   before |-> <<>>]
    /\ UNCHANGED <<flowVars, mergeVars, authVars, storeVars, identityVars, saveVars, secret, approvedCookie, pristine>>

NextCookie ==
    \/ \E c \in CookieClients : CookieApprove(c)
    \/ \E i \in DOMAIN approvedCookie, ch \in TamperChars : CookieTamper(i, ch)
    \/ \E c \in CookieClients : CookieCheck(c)


(* --------------------- /authorize, request by request -------------------- *)
(* GET /authorize and POST /authorize of src/src/oauth-handler.ts with the  *)
(* request's query, form and Cookie header as inputs and the response, its  *)
(* Set-Cookie headers included, as output.                                   *)

\* /authorize requests answered in one run; request n draws the random token n
MaxAuthRequests == 3

AuthTokens == 1..MaxAuthRequests

\* the provider query parameter / state.requestedProvider: absent, handled by
\* redirectToProvider, not handled
RequestedProviders == {Undef, "github", "slack"}

\* approved-clients cookies no response has set: a payload naming c1 under a
\* signature that was not computed with the key, and a payload that is not base64
ForgedApproved ==
    {<<"0", "0", "0", "0", ".">> \o btoa(JSONStringifyClients(<<"c1">>)),
     <<"0", "0", "0", "0", ".", "!">>}

\* the state field of the consent form: absent, not base64 of JSON, or the
\* object the consent page put there
FormStates ==
    {[kind |-> "absent", clientId |-> Undef, requestedProvider |-> Undef],
     [kind |-> "malformed", clientId |-> Undef, requestedProvider |-> Undef]}
        \cup [kind : {"ok"}, clientId : CookieClients \cup {Undef},
              requestedProvider : {Undef, "slack"}]

\* new Response(null, {status: 302, headers: {...headers, Location: authUrl}})
Redirect == [status |-> 302, error |-> "", desc |-> "", json |-> FALSE, clears |-> FALSE]

\* renderApprovalDialog: the consent page
ConsentPage == [status |-> 200, error |-> "", desc |-> "consent", json |-> FALSE, clears |-> FALSE]

\* the answer to an exception no handler catches
InternalServerError == TextResponse("Internal Server Error", 500)

\* requestedProvider || "github"
ProviderOrDefault(requestedProvider) ==
    IF requestedProvider = Undef THEN "github" ELSE requestedProvider

\* Object.fromEntries(headers) of the two appended Set-Cookie values, spread
\* into the response headers: the header values of the response, each a list
\* of the cookies written in it
PostSetCookieHeaders(mode) ==
    IF mode = "last" THEN <<(<<"consented">>)>> ELSE <<(<<"approved", "consented">>)>>

\* the browser stores the first cookie of each Set-Cookie header value
Stores(headers, name) == \E i \in DOMAIN headers : headers[i][1] = name

NoAuth ==
    [route |-> "none", direct |-> FALSE, clientId |-> Undef, provider |-> Undef,
     form |-> NoCsrf, csrfCookie |-> NoCsrf, approvedSent |-> NoCookie,
     csrfError |-> NoResponse, resp |-> NoResponse, headers |-> <<>>, token |-> NoState]

InitAuthorize ==
    /\ served = 0
    /\ stateKeys = [t \in AuthTokens |-> Absent]
    /\ cookies = [csrf |-> NoCsrf, consented |-> NoCookie, approved |-> NoCookie]
    /\ auth = NoAuth

\* the __Host-APPROVED_CLIENTS value of a request's Cookie header
ApprovedChoices == {cookies.approved} \cup ForgedApproved

\* GET /authorize
GetAuthorize(requestedProvider, clientId, approvedRaw) ==
    /\ served < MaxAuthRequests
    /\ LET n == served + 1
           direct == requestedProvider # Undef /\ clientId = Undef
           provider == ProviderOrDefault(requestedProvider)
           approved == IF direct \/ clientId = Undef THEN "false"
                       ELSE isClientApproved(approvedRaw, clientId, secret)
           puts == direct \/ approved = "true"
           redirects == puts /\ provider \in Supported
           resp == IF ~direct /\ clientId = Undef THEN TextResponse("Invalid request", 400)
                   ELSE IF approved = "throws" THEN InternalServerError
                   ELSE IF redirects THEN Redirect
                   ELSE IF puts THEN InternalServerError
                   ELSE ConsentPage
           headers == IF redirects THEN <<(<<"consented">>)>>
                      ELSE IF resp = ConsentPage THEN <<(<<"csrf">>)>>
                      ELSE <<>>
       IN  /\ approvedRaw # cookies.approved => (~direct /\ clientId # Undef)
           /\ stateKeys' =
                 IF ~puts THEN stateKeys
                 ELSE [stateKeys EXCEPT ![n] =
                         createOAuthState(IF direct THEN DirectState(provider, Undef)
                                          ELSE StandardState(clientId, provider))]
           /\ cookies' = [cookies EXCEPT
                            !.consented = IF Stores(headers, "consented")
                                          THEN bindStateToSession(n) ELSE @,
                            !.csrf = IF Stores(headers, "csrf") THEN n ELSE @]
           /\ auth' = [NoAuth EXCEPT !.route = "GET", !.direct = direct,
                          !.clientId = clientId, !.provider = provider,
                          !.approvedSent = approvedRaw, !.resp = resp,
                          !.headers = headers,
                          !.token = IF puts THEN n ELSE NoState]
    /\ served' = served + 1
    /\ UNCHANGED <<flowVars, mergeVars, cookieVars, storeVars, identityVars, saveVars>>

\* POST /authorize.  The inputs the handler does not get to read are left at
\* their first value.
PostAuthorizeForm(formToken, csrfCookie, state, approvedRaw, mode) ==
    /\ served < MaxAuthRequests
    /\ LET n == served + 1
           csrfError == validateCSRFToken(formToken, csrfCookie)
           provider == ProviderOrDefault(state.requestedProvider)
           parsed == csrfError = NoResponse /\ state.kind = "ok" /\ state.clientId # Undef
           puts == parsed /\ ~getApprovedClientsFromCookie(approvedRaw, secret).threw
           redirects == puts /\ provider \in Supported
           resp == IF csrfError # NoResponse THEN csrfError
                   ELSE IF state.kind = "absent" THEN TextResponse("Missing state in form data", 400)
                   ELSE IF state.kind = "malformed" THEN TextResponse("Invalid state data", 400)
                   ELSE IF state.clientId = Undef THEN TextResponse("Invalid request", 400)
                   ELSE IF ~redirects THEN TextResponse("Internal server error", 500)
                   ELSE Redirect
           headers == IF redirects THEN PostSetCookieHeaders(mode) ELSE <<>>
       IN  /\ csrfError # NoResponse => state.kind = "absent"
           /\ ~parsed => approvedRaw = cookies.approved
           /\ ~redirects => mode = "last"
           /\ stateKeys' =
                 IF ~puts THEN stateKeys
                 ELSE [stateKeys EXCEPT ![n] =
                         createOAuthState(StandardState(state.clientId, provider))]
           /\ cookies' = [cookies EXCEPT
                            !.consented = IF Stores(headers, "consented")
                                          THEN bindStateToSession(n) ELSE @,
                            !.approved = IF Stores(headers, "approved")
                                         THEN addApprovedClient(approvedRaw, state.clientId, secret)
                                         ELSE @]
           /\ auth' = [NoAuth EXCEPT !.route = "POST",
                          !.clientId = state.clientId, !.provider = provider,
                          !.form = formToken, !.csrfCookie = csrfCookie,
                          !.approvedSent = approvedRaw, !.csrfError = csrfError,
                          !.resp = resp, !.headers = headers,
                          !.token = IF puts THEN n ELSE NoState]
    /\ served' = served + 1
    /\ UNCHANGED <<flowVars, mergeVars, cookieVars, storeVars, identityVars, saveVars>>

NextAuthorize ==
    \/ \E p \in RequestedProviders, c \in CookieClients \cup {Undef}, raw \in ApprovedChoices :
          GetAuthorize(p, c, raw)
    \/ \E f \in {NoCsrf, FileField} \cup (1..served), k \in {NoCsrf, cookies.csrf},
          st \in FormStates, raw \in ApprovedChoices, m \in HeaderModes :
          PostAuthorizeForm(f, k, st, raw, m)


(* ------------------- the record of connected providers ------------------- *)
(* src/unnamed/part_000: the record user-providers::<email> of PROVIDERS_KV  *)
(* as handleDirectProviderAuth reads it and as the callback reads it and     *)
(* writes it back, with the requests of several flows in flight at once.     *)

MaxCallbacks == 3
CallbackIds == 1..MaxCallbacks

\* providers the incremental flows of a run connect
StoreInputs == {"gmail", "slack"}

\* PROVIDERS_KV.get answers null: present is FALSE
NoRecord ==
    [present |-> FALSE, providers |-> [q \in ProviderNames |-> NoCredential],
     connectedIntegrations |-> <<>>, userData |-> UnknownUser]

\* part_000 handleDirectProviderAuth: existingProps from the `user` query
\* parameter and the record
KvExistingProps(stored, googleEmail) ==
    IF googleEmail = Undef THEN NoProps
    ELSE IF ~stored.present THEN
        [NoProps EXCEPT !.present = TRUE, !.email = googleEmail, !.name = googleEmail]
    ELSE
        [NoProps EXCEPT
            !.present = TRUE, !.email = googleEmail,
            !.name = IF Falsy(stored.userData.name) THEN googleEmail ELSE stored.userData.name,
            !.accessToken = stored.providers["google"].accessToken,
            !.gmailAccessToken = stored.providers["gmail"].accessToken,
            !.gmailRefreshToken = stored.providers["gmail"].refreshToken,
            !.calendarAccessToken = stored.providers["calendar"].accessToken,
            !.calendarRefreshToken = stored.providers["calendar"].refreshToken,
            !.driveAccessToken = stored.providers["drive"].accessToken,
            !.driveRefreshToken = stored.providers["drive"].refreshToken,
            !.notionAccessToken = stored.providers["notion"].accessToken,
            !.slackAccessToken = stored.providers["slack"].accessToken,
            !.connectedIntegrations = stored.connectedIntegrations]

\* part_000 callback: mergedProviders, the entries of existingProps and then
\* the entry of the provider just exchanged
Part000MergedProviders(provider, existingProps, accessToken, refreshToken) ==
    [q \in ProviderNames |->
        IF q = provider THEN Credential(accessToken, refreshToken)
        ELSE IF ~existingProps.present \/ q = "github" THEN NoCredential
        ELSE IF q = "google" THEN ExistingAccessOnly(existingProps, q)
        ELSE ExistingCredential(existingProps, q)]

\* part_000 callback: userData after the exchange and resolveGoogleIdentity
Part000UserData(provider, existingProps) ==
    resolveGoogleIdentity(
        IF provider = "google" THEN Part001GoogleUser ELSE InitialUserData(existingProps),
        existingProps)

\* part_000 callback: userData.email && userData.email !== "unknown-user@example.com"
PersistsToKv(userData) ==
    ~Falsy(userData.email) /\ userData.email # "unknown-user@example.com"

\* part_000 callback: dataToSave, from the record as PROVIDERS_KV.get returned
\* it (existing)
dataToSave(existing, existingProps, mergedProviders, provider, userData) ==
    [present |-> TRUE,
     providers |->
        IF existing.present
        THEN [q \in ProviderNames |->
                IF mergedProviders[q] # NoCredential THEN mergedProviders[q]
                ELSE existing.providers[q]]
        ELSE mergedProviders,
     connectedIntegrations |->
        AppendAllNew(<<>>,
            Append(IF existing.present THEN existing.connectedIntegrations
                   ELSE existingProps.connectedIntegrations, provider)),
     userData |-> userData]

IdleCallback ==
    [pc |-> "idle", provider |-> Undef, isDirect |-> FALSE, existingProps |-> NoProps,
     mergedProviders |-> [q \in ProviderNames |-> NoCredential],
     userData |-> UnknownUser, existing |-> NoRecord, wrote |-> FALSE]

InitStore ==
    /\ providersKv = NoRecord
    /\ callbacks = [id \in CallbackIds |-> IdleCallback]

\* the flows of a run take the identifiers in order
NextIdleCallback(id) ==
    /\ callbacks[id].pc = "idle"
    /\ \A other \in CallbackIds : other < id => callbacks[other].pc # "idle"

\* part_000, GET or POST /authorize of the standard flow for google: the state
\* carries no existingProps
Part000StartStandard(id) ==
    /\ NextIdleCallback(id)
    /\ callbacks' = [callbacks EXCEPT ![id] =
            [IdleCallback EXCEPT !.pc = "authorizing", !.provider = "google"]]
    /\ UNCHANGED <<flowVars, mergeVars, cookieVars, authVars, identityVars, saveVars, providersKv>>

\* part_000, handleDirectProviderAuth
Part000StartDirect(id, provider, googleEmail) ==
    /\ NextIdleCallback(id)
    /\ callbacks' = [callbacks EXCEPT ![id] =
            [IdleCallback EXCEPT !.pc = "authorizing", !.provider = provider,
                                !.isDirect = TRUE,
                                !.existingProps = KvExistingProps(providersKv, googleEmail)]]
    /\ UNCHANGED <<flowVars, mergeVars, cookieVars, authVars, identityVars, saveVars, providersKv>>

\* part_000, GET /callback/:provider from validateOAuthState to the answer of
\* PROVIDERS_KV.get, or to completeAuthorization when nothing is persisted;
\* the exchange of flow id yields the token id
Part000CallbackGet(id) ==
    /\ callbacks[id].pc = "authorizing"
    /\ LET c == callbacks[id]
           merged == Part000MergedProviders(c.provider, c.existingProps, id, id)
           userData == Part000UserData(c.provider, c.existingProps)
       IN  callbacks' = [callbacks EXCEPT ![id] =
               [c EXCEPT !.pc = IF PersistsToKv(userData) THEN "read" ELSE "done",
                         !.mergedProviders = merged,
                         !.userData = userData,
                         !.existing = IF PersistsToKv(userData) THEN providersKv ELSE NoRecord]]
    /\ UNCHANGED <<flowVars, mergeVars, cookieVars, authVars, identityVars, saveVars, providersKv>>

\* part_000, GET /callback/:provider from PROVIDERS_KV.put to completeAuthorization
Part000CallbackPut(id) ==
    /\ callbacks[id].pc = "read"
    /\ LET c == callbacks[id]
       IN  /\ providersKv' = dataToSave(c.existing, c.existingProps, c.mergedProviders,
                                        c.provider, c.userData)
           /\ callbacks' = [callbacks EXCEPT ![id] = [c EXCEPT !.pc = "done", !.wrote = TRUE]]
    /\ UNCHANGED <<flowVars, mergeVars, cookieVars, authVars, identityVars, saveVars>>

NextStore ==
    \/ \E id \in CallbackIds : Part000StartStandard(id)
    \/ \E id \in CallbackIds, p \in StoreInputs, e \in GoogleEmails :
          Part000StartDirect(id, p, e)
    \/ \E id \in CallbackIds : Part000CallbackGet(id)
    \/ \E id \in CallbackIds : Part000CallbackPut(id)

(* --------------- part_001: whose credentials, under whose name ---------- *)
(* handleDirectProviderAuth and GET /callback/:provider of src/unnamed/part_001 *)
(* with several browsers and several user rows.                              *)

\* requests served in one run of the identity flows
MaxIdentitySteps == 4

\* the e-mails of the user rows; GoogleProfile is what the userinfo endpoint
\* of google answers for the account a browser is logged in with
Emails == {"u@g", "m@g"}
GoogleProfile(b) ==
    IF b = "b1" THEN [login |-> Undef, name |-> "U G", email |-> "u@g"]
    ELSE [login |-> Undef, name |-> "M G", email |-> "m@g"]

\* the `user` query parameter of GET /authorize?provider=p&user=...
UserParams == Emails \cup {Undef}
IdentityProviders == {"slack", "calendar"}

\* db.query.user.findFirst and getUserIntegrations for an e-mail
UserTable(table, email) == IF email \in Emails THEN table[email] ELSE NoIntegrations

InitIdentity ==
    /\ users = [e \in Emails |-> NoIntegrations]
    /\ pendingAuth = {}
    /\ proven = [b \in Browsers |-> {}]
    /\ loadedFor = {}
    /\ savedBy = {}
    /\ idSteps = 0
    /\ lastExchange = [provider |-> Undef, result |-> "none"]

\* GET or POST /authorize of the standard flow for google, the anchor
IdentityStartStandard(b) ==
    /\ idSteps < MaxIdentitySteps
    /\ idSteps' = idSteps + 1
    /\ pendingAuth' = pendingAuth \cup
            {[browser |-> b, requestedProvider |-> "google", isDirect |-> FALSE,
              existingProps |-> NoProps]}
    /\ UNCHANGED <<flowVars, mergeVars, cookieVars, authVars, storeVars, saveVars,
                   users, proven, loadedFor, savedBy, lastExchange>>

\* handleDirectProviderAuth: existingProps of the user the `user` parameter
\* names, from the database
handleDirectProviderAuth(table, googleEmail) ==
    LoadExistingProps(UserTable(table, googleEmail), googleEmail)

\* GET /authorize?provider=p&user=googleEmail from browser b
IdentityStartDirect(b, p, googleEmail) ==
    /\ idSteps < MaxIdentitySteps
    /\ idSteps' = idSteps + 1
    /\ LET existingProps == handleDirectProviderAuth(users, googleEmail)
       IN  /\ pendingAuth' = pendingAuth \cup
                    {[browser |-> b, requestedProvider |-> p, isDirect |-> TRUE,
                      existingProps |-> existingProps]}
           /\ loadedFor' = IF existingProps.connectedIntegrations # <<>>
                           THEN loadedFor \cup {[browser |-> b, email |-> googleEmail]}
                           ELSE loadedFor
    /\ UNCHANGED <<flowVars, mergeVars, cookieVars, authVars, storeVars, saveVars,
                   users, proven, savedBy, lastExchange>>

\* what the exchange of a callback meets: an access token; an error of the
\* token endpoint or of the userinfo endpoint, answered before any database
\* call; or, from slack, {ok: true} without access_token, which the slack
\* branch does not look for
ExchangeResults == {"token", "error", "noToken"}

\* saveIntegration with accessToken undefined: the update leaves the column
\* as it is and writes refreshToken || null, the insert is refused (NOT NULL)
SaveWithoutToken(table, provider, userData) ==
    IF table.exists /\ table.rows[provider] # NoCredential
    THEN [table EXCEPT !.rows[provider].refreshToken = NoToken]
    ELSE Part001PersistThrows(table, provider, userData, "save")

\* GET /callback/:provider from the browser the state is bound to, from the
\* exchange to the database calls
IdentityCallback(s, result) ==
    /\ s \in pendingAuth
    /\ idSteps < MaxIdentitySteps
    /\ idSteps' = idSteps + 1
    /\ pendingAuth' = pendingAuth \ {s}
    /\ result = "noToken" => s.requestedProvider = "slack"
    /\ LET provider == s.requestedProvider
           accessToken == idSteps + 1
           userData == resolveGoogleIdentity(
                          IF provider = "google" THEN GoogleProfile(s.browser)
                          ELSE InitialUserData(s.existingProps),
                          s.existingProps)
           email == userData.email
           writes == result # "error" /\ email \in Emails
       IN  /\ users' = IF ~writes THEN users
                       ELSE IF result = "noToken"
                       THEN [users EXCEPT ![email] =
                               SaveWithoutToken(users[email], provider, userData)]
                       ELSE [users EXCEPT ![email] =
                               Part001Persist(users[email], provider, userData,
                                              Credential(accessToken, accessToken))]
           /\ savedBy' = IF writes /\ result = "token"
                         THEN savedBy \cup {[browser |-> s.browser, email |-> email,
                                             provider |-> provider,
                                             existed |-> users[email].exists]}
                         ELSE savedBy
           /\ proven' = IF provider = "google" /\ result = "token"
                        THEN [proven EXCEPT ![s.browser] = @ \cup {email}]
                        ELSE proven
           /\ lastExchange' = [provider |-> provider, result |-> result]
    /\ UNCHANGED <<flowVars, mergeVars, cookieVars, authVars, storeVars, saveVars, loadedFor>>

NextIdentity ==
    \/ \E b \in Browsers : IdentityStartStandard(b)
    \/ \E b \in Browsers, p \in IdentityProviders, u \in UserParams :
          IdentityStartDirect(b, p, u)
    \/ \E s \in pendingAuth, x \in ExchangeResults : IdentityCallback(s, x)

\* C36: every state entry /authorize writes to the KV store is delivered to
\* the browser: the request that wrote it answers with the 302 to the
\* provider and the binding cookie of that token, whatever provider it names.
C36_EveryEntryDelivered ==
    auth.token # NoState =>
        /\ stateKeys[auth.token] # Absent
        /\ auth.resp = Redirect
        /\ Stores(auth.headers, "consented")
        /\ cookies.consented = bindStateToSession(auth.token)

\* the CSRF token of the form is missing or is not the one of the cookie
BadCsrf(request) ==
    \/ request.form \in {NoCsrf, FileField}
    \/ request.csrfCookie = NoCsrf
    \/ request.form # request.csrfCookie

\* C37: an approved-clients cookie is issued only in the response to a POST
\* /authorize whose CSRF validation succeeded, and a POST with a missing or
\* mismatched CSRF token changes neither that cookie nor the KV store.
C37_ApprovalNeedsCsrf ==
    [][served' # served =>
         /\ (auth'.route = "POST" /\ BadCsrf(auth')) =>
                /\ cookies'.approved = cookies.approved
                /\ stateKeys' = stateKeys
                /\ auth'.token = NoState
         /\ cookies'.approved # cookies.approved =>
                auth'.route = "POST" /\ ~BadCsrf(auth')]_vars

\* after an approval was issued and a state stored, a POST with a token that
\* is not the cookie's has been turned away
C37_Witness ==
    /\ auth.route = "POST"
    /\ auth.resp = ErrCsrfMismatch
    /\ cookies.approved # NoCookie
    /\ \E t \in AuthTokens : stateKeys[t] # Absent

(* ------------------ IntegrationService.saveIntegration ------------------ *)
(* src/src/services/integrations.ts over the integration table of            *)
(* src/src/db/schema.ts, with calls in flight together.                      *)

\* saveIntegration calls in one run
MaxSaves == 3
SaveIds == 1..MaxSaves

\* providers the calls of a run save, all for the one user
SaveProviders == {"gmail", "slack"}

\* existing.length = 0
NoRow == 0

\* the key of the integration table as sqliteTable declares it: the id
\* column. integrationIndex, the composite key on (userId, provider), is
\* built outside the table definition and is part of no table.
RowKey(row) == row.id

\* db.insert(integration).values(...): refused when the key is taken
InsertRow(table, row) ==
    IF \E r \in table : RowKey(r) = RowKey(row) THEN table ELSE table \cup {row}

\* db.update(integration).set(...).where(eq(integration.id, id))
UpdateRow(table, id, accessToken) ==
    {IF r.id = id THEN [r EXCEPT !.accessToken = accessToken] ELSE r : r \in table}

IdleSave == [pc |-> "idle", provider |-> Undef, accessToken |-> NoToken, existing |-> NoRow]

InitSave ==
    /\ integrationRows = {}
    /\ saves = [c \in SaveIds |-> IdleSave]

\* saveIntegration is called: the access token of call c is c
SaveCall(c, provider) ==
    /\ saves[c].pc = "idle"
    /\ \A o \in SaveIds : o < c => saves[o].pc # "idle"
    /\ saves' = [saves EXCEPT ![c] = [IdleSave EXCEPT !.pc = "select", !.provider = provider,
                                                     !.accessToken = c]]
    /\ UNCHANGED <<flowVars, mergeVars, cookieVars, authVars, storeVars, identityVars,
                   integrationRows>>

\* await db.select().from(integration).where(...).limit(1): one of the rows
\* of the pair, or none
SaveSelect(c, id) ==
    /\ saves[c].pc = "select"
    /\ LET matching == {r \in integrationRows : r.provider = saves[c].provider}
       IN  IF matching = {} THEN id = NoRow ELSE \E r \in matching : r.id = id
    /\ saves' = [saves EXCEPT ![c].pc = "write", ![c].existing = id]
    /\ UNCHANGED <<flowVars, mergeVars, cookieVars, authVars, storeVars, identityVars,
                   integrationRows>>

\* await db.update(...) of the row found, or await db.insert(...) of a row
\* with a fresh id (the id of call c is c)
SaveWrite(c) ==
    /\ saves[c].pc = "write"
    /\ integrationRows' =
            IF saves[c].existing # NoRow
            THEN UpdateRow(integrationRows, saves[c].existing, saves[c].accessToken)
            ELSE InsertRow(integrationRows,
                           [id |-> c, provider |-> saves[c].provider,
                            accessToken |-> saves[c].accessToken])
    /\ saves' = [saves EXCEPT ![c].pc = "done"]
    /\ UNCHANGED <<flowVars, mergeVars, cookieVars, authVars, storeVars, identityVars>>

NextSave ==
    \/ \E c \in SaveIds, p \in SaveProviders : SaveCall(c, p)
    \/ \E c \in SaveIds, id \in SaveIds \cup {NoRow} : SaveSelect(c, id)
    \/ \E c \in SaveIds : SaveWrite(c)

(* --------------------------- specifications --------------------------- *)

Init ==
    /\ InitFlow /\ InitMerge /\ InitCookie /\ InitAuthorize /\ InitStore /\ InitIdentity /\ InitSave
    /\ secret = 26

\* the authorization flow: tokens, cookies, callbacks
Spec == Init /\ [][Next]_vars

\* saveIntegration calls in flight together
SpecSave == Init /\ [][NextSave]_vars

\* part_001: the direct flow and the anchor flow of several browsers
SpecIdentity == Init /\ [][NextIdentity]_vars

\* the callback's merge of credentials and identity
SpecMerge == Init /\ [][NextMerge]_vars

\* the approved-clients cookie under any of the keys
InitSecrets ==
    /\ InitFlow /\ InitMerge /\ InitCookie /\ InitAuthorize /\ InitStore /\ InitIdentity /\ InitSave
    /\ secret \in Secrets

SpecCookie == InitSecrets /\ [][NextCookie]_vars

\* the /authorize endpoints, request by request
SpecAuthorize == Init /\ [][NextAuthorize]_vars

\* the record of connected providers under requests in flight together
SpecStore == Init /\ [][NextStore]_vars

\* callback requests in one run of the flow when entries are followed to
\* their end
MaxExpiryCallbacks == 1

\* a step of the flow that keeps the run within MaxExpiryCallbacks callbacks
WithinExpiry == Cardinality({r \in ReqIds : req'[r].pc # "idle"}) <= MaxExpiryCallbacks

NextExpiry ==
    \/ \E b \in Users, d \in DirectInputs : AuthorizeDirect(b, d[1], d[2]) /\ WithinExpiry
    \/ \E b \in Users, c \in Clients, p \in FlowProviders \cap Supported :
          AuthorizeApproved(b, c, p) /\ WithinExpiry
    \/ \E b \in Users, c \in Clients : AuthorizeConsent(b, c) /\ WithinExpiry
    \/ \E b \in Users, f \in CsrfTokens : PostAuthorizeRejected(b, f) /\ WithinExpiry
    \/ \E b \in Users, f \in CsrfTokens, c \in Clients, p \in FlowProviders, m \in HeaderModes :
          PostAuthorize(b, f, c, p, m) /\ WithinExpiry
    \/ \E t \in Tokens : Expire(t) /\ WithinExpiry
    \/ \E r \in ReqIds, b \in Users, p \in FlowProviders, t \in Tokens \cup {NoState} :
          CbReject(r, b, p, t) /\ WithinExpiry
    \/ \E r \in ReqIds, b \in Browsers, p \in FlowProviders, t \in Tokens :
          \E ck \in CookieChoices(b, t) : CbKvGet(r, b, p, t, ck) /\ WithinExpiry
    \/ \E r \in ReqIds : CbCheck(r) /\ WithinExpiry
    \/ \E r \in ReqIds : CbKvDelete(r) /\ WithinExpiry
    \/ \E r \in ReqIds, o \in ExchangeOutcomes : CbExchange(r, o) /\ WithinExpiry
    \/ \E r \in ReqIds : CbComplete(r) /\ WithinExpiry

\* the authorization flow with a KV store that does expire what it was told
\* to expire: an entry that stays in the store meets its TTL (600 seconds)
SpecExpiry == Init /\ [][NextExpiry]_vars /\ \A t \in Tokens : WF_vars(Expire(t))

\* the authorization flow with callbacks on the URL of any provider
SpecCallback == Init /\ [][NextCallback]_vars

(* ------------------------- claims on the flow -------------------------- *)

\* validateOAuthState has returned for request r (state found, binding matched,
\* payload parsed) or is about to: only kv.delete is left
Passed(r) == req[r].pc = "delete" \/ req[r].validated

IsInvalidRequest(resp) == resp.status = 400 /\ resp.error = "invalid_request" /\ resp.json

\* C1: once validateOAuthState has succeeded for a state token T, the entry
\* oauth:state:T is gone from the store, and every validateOAuthState for T that
\* reads the store afterwards, from any browser and with any cookie, fails
\* with invalid_request (400).
C1_SingleUse ==
    /\ \A r \in ReqIds : req[r].validated => kv[req[r].token] = Absent
    /\ \A r \in ReqIds :
          req[r].fateAtGet = "consumed" =>
              /\ req[r].pc \in {"check", "failed"}
              /\ ~req[r].validated
              /\ req[r].pc = "failed" => IsInvalidRequest(req[r].resp)

C1_Witness ==
    \E r1, r2 \in ReqIds :
        /\ req[r1].validated
        /\ req[r2].token = req[r1].token
        /\ req[r2].fateAtGet = "consumed"
        /\ req[r2].cookie = Sha256Hex(req[r2].token)
        /\ req[r2].pc = "failed"

\* C2: of the callbacks that carry the same state token and the matching
\* binding cookie, at most one returns successfully from validateOAuthState,
\* under every interleaving of their KV get, hash comparison and KV delete.
C2_AtMostOneConsumer ==
    \A r1, r2 \in ReqIds :
        (req[r1].validated /\ req[r2].validated /\ req[r1].token = req[r2].token) => r1 = r2

\* C3: after POST /authorize has run CSRF validation on a form token, the
\* browser holds no CSRF cookie matching that token, so that resubmitting the
\* token is rejected.
C3_CsrfTokenNotReusable ==
    \A b \in Users : \A f \in csrfUsed : jar[b].csrf # f

\* C4: a callback that presents a live state token with a missing or
\* non-matching binding cookie fails with invalid_request (400) and leaves the
\* entry in the store: an entry stays until a successful validation or its
\* expiry, and a callback that finds it later and holds the matching cookie
\* passes validation.
C4_BindingFailureKeepsState ==
    /\ \A r \in ReqIds :
          (req[r].stored # Absent /\ req[r].pc # "check"
              /\ req[r].cookie # Sha256Hex(req[r].token)) =>
                 (req[r].pc = "failed" /\ ~req[r].validated /\ IsInvalidRequest(req[r].resp))
    /\ \A t \in Tokens : fate[t] = "live" => kv[t] # Absent
    /\ \A r \in ReqIds :
          (req[r].afterBindFail /\ req[r].stored # Absent /\ req[r].pc # "check"
              /\ req[r].cookie = Sha256Hex(req[r].token)) => Passed(r)

C4_Witness ==
    \E r1, r2 \in ReqIds :
        /\ req[r1].resp \in BindingErrors
        /\ req[r2].token = req[r1].token
        /\ req[r2].afterBindFail
        /\ req[r2].validated

\* C8: validateOAuthState accepts exactly the cookie value that
\* bindStateToSession produced for the presented token; with any other value
\* (absent, or the cookie bound to another token) it fails with
\* invalid_request (400).
C8_BindingVerify ==
    \A r \in ReqIds :
        (req[r].stored # Absent /\ req[r].pc # "check") =>
            /\ Passed(r) <=> req[r].cookie = bindStateToSession(req[r].token)
            /\ ~Passed(r) => (req[r].pc = "failed" /\ IsInvalidRequest(req[r].resp))

C8_Witness ==
    \E r1, r2 \in ReqIds :
        /\ req[r1].validated
        /\ req[r1].cookie = bindStateToSession(req[r1].token)
        /\ req[r2].stored # Absent
        /\ req[r2].cookie = bindStateToSession(req[r2].token + 1)
        /\ req[r2].resp = ErrBindingMismatch

\* JSON.stringify of an object read property by property
Restringify(obj) == JSONStringify([k \in {PayloadKeys[i] : i \in DOMAIN PayloadKeys} |-> Field(obj, k)])

\* C9: the data returned by the successful validateOAuthState of a token equals
\* the payload passed to createOAuthState (every property reads the same and
\* its JSON text is the same), and the value stored under a key is the text
\* written at creation for as long as the key exists.
C9_RoundTrip ==
    /\ \A r \in ReqIds :
          Passed(r) =>
              /\ \A i \in DOMAIN PayloadKeys :
                    Field(req[r].data, PayloadKeys[i]) = created[req[r].token][PayloadKeys[i]]
              /\ Restringify(req[r].data) = JSONStringify(created[req[r].token])
    /\ \A t \in Tokens : kv[t] # Absent => kv[t] = JSONStringify(created[t])

C9_Witness ==
    \E r \in ReqIds :
        /\ req[r].validated
        /\ created[req[r].token]["isDirect"] = "true"
        /\ created[req[r].token]["currentToken"] = Undef
        /\ "currentToken" \notin DOMAIN req[r].data

\* the state token of request r named no entry when the store was read
DeadAtGet(r) == req[r].fateAtGet \in {"never", "consumed", "expired"} /\ req[r].pc # "check"

\* C10: callbacks whose state token is expired, already consumed or never
\* issued get the same response (status, error code, description) when the
\* rest of the request is the same.
C10_DeadTokensIndistinguishable ==
    \A r1, r2 \in ReqIds :
        (DeadAtGet(r1) /\ DeadAtGet(r2)
            /\ req[r1].provider = req[r2].provider /\ req[r1].cookie = req[r2].cookie) =>
                /\ req[r1].resp = req[r2].resp
                /\ req[r1].resp.status = 400

C10_Witness ==
    \E r1, r2 \in ReqIds :
        /\ DeadAtGet(r1) /\ DeadAtGet(r2)
        /\ req[r1].fateAtGet # req[r2].fateAtGet
        /\ req[r1].provider = req[r2].provider /\ req[r1].cookie = req[r2].cookie
        /\ req[r1].pc = "failed" /\ req[r2].pc = "failed"

\* C15: once a callback for a stored state token T has ended with an error
\* response (a failed binding check, a payload that does not parse, a failed
\* token exchange), no callback with the same T that arrives later reaches
\* completion.
C15_FailedIsTerminal ==
    \A r \in ReqIds : req[r].afterFailure => req[r].pc # "completed"

\* C17: a callback whose token endpoint answered with a success status but
\* without an access token fails with a 5xx status, not with a 400.
C17_MissingAccessTokenIsUpstreamError ==
    \A r \in ReqIds :
        req[r].upstream = "missing_access_token" =>
            (req[r].pc = "failed" /\ req[r].resp.status >= 500)

\* C18: every error response of GET /callback/:provider is a JSON body with
\* the fields error and error_description, under the status of its error
\* class: 400 for invalid_request, 500 for the others.
C18_FailuresAreJson ==
    \A r \in ReqIds :
        req[r].pc = "failed" =>
            /\ req[r].resp.json
            /\ req[r].resp.error # ""
            /\ req[r].resp.status = (IF req[r].resp.error = "invalid_request" THEN 400 ELSE 500)

C25_CompletionResponse ==
    \A r \in ReqIds :
        req[r].pc = "completed" =>
            LET direct == Field(req[r].data, "isDirect") = "true"
                             /\ Field(req[r].data, "redirectUri") = Undef
            IN  /\ req[r].resp.clears
                /\ direct => req[r].resp.status = 200 /\ ~req[r].resp.host
                /\ ~direct => req[r].resp.status = 302 /\ req[r].resp.host

C25_Witness ==
    \E r \in ReqIds :
        /\ req[r].pc = "completed"
        /\ req[r].resp.status = 200
        /\ req[r].resp.clears

\* C28: a callback sends a token-exchange request only after its
\* validateOAuthState returned: the entry was found, the binding cookie
\* matched the digest of the token and the entry is deleted; and a callback
\* is past the exchange, at the merge or completed, only when its exchange
\* succeeded.
C28_ValidationBeforeExchange ==
    \A r \in ReqIds :
        /\ req[r].upstream # "none" =>
              /\ req[r].validated
              /\ req[r].stored # Absent
              /\ SessionHashMatches(Sha256Hex(req[r].token), req[r].cookie)
              /\ kv[req[r].token] = Absent
        /\ req[r].pc \in {"exchanged", "completed"} => req[r].upstream = "ok"

C28_Witness ==
    \E r \in ReqIds :
        /\ req[r].pc = "completed"
        /\ req[r].upstream = "ok"
        /\ req[r].resp.status = 302

\* C29: every entry createOAuthState has written is absent from the store
\* some time later, deleted by a callback or expired, whether or not a
\* callback ever comes for it and whatever the callbacks for it answer.
\* (a token is never issued twice, so "present leads to absent" is "absent
\* again and again": no entry stays in the store for ever.)
C29_EntriesGoAway == \A t \in Tokens : []<>(kv[t] = Absent)

\* an entry that a callback failed on, the binding check leaving it in the
\* store, has expired
C29_Witness ==
    \E t \in Tokens :
        /\ fate[t] = "expired"
        /\ kv[t] = Absent
        /\ \E r \in ReqIds : req[r].token = t /\ req[r].pc = "failed" /\ req[r].stored # Absent

\* C30: a state entry is consumed only by the callback of the provider it was
\* issued for: a callback on /callback/Q that has validated a state (found,
\* binding verified, deleted) has a payload whose requestedProvider is Q.
C30_OwnProviderOnly ==
    \A r \in ReqIds :
        req[r].validated => Field(req[r].data, "requestedProvider") = req[r].provider

\* the bundle handed to the host by the last callback holds the credential
\* that callback exchanged
HandedToHost ==
    /\ last.props.present
    /\ last.props[AccessField(last.provider)] = last.exchanged

\* the credential store holds the credential the last callback exchanged
WrittenToStore == integrations.rows[last.provider].accessToken = last.exchanged

\* C31: every callback that ends COMPLETED has made the credential it just
\* exchanged available to later tool calls: it handed it to the host's
\* completeAuthorization in the bundle, or it wrote it to the credential
\* store; the confirmation page of a direct flow never drops it.
C31_CredentialAvailable == last.completed => HandedToHost \/ WrittenToStore

\* C32: in the direct flow of part_001 a credential a browser obtained is
\* stored under a stored user only when this browser has proven that identity
\* through the anchor provider, and the stored credentials of a user are
\* loaded into a state only for a browser that has authenticated as that user.
C32_OnlyProvenIdentity ==
    /\ \A x \in savedBy : x.existed => x.email \in proven[x.browser]
    /\ \A x \in loadedFor : x.email \in proven[x.browser]

C34_OneRowPerPair ==
    (\A c \in SaveIds : saves[c].pc \in {"idle", "done"}) =>
        \A p \in SaveProviders :
            LET matching == {r \in integrationRows : r.provider = p}
            IN  /\ Cardinality(matching) <= 1
                /\ \A r \in matching :
                      \E c \in SaveIds : saves[c].provider = p /\ saves[c].accessToken = r.accessToken

\* the callback r came from the browser of the flows with a binding cookie
\* that a flow started later had overwritten
Superseded(r) ==
    /\ req[r].browser \in Users
    /\ \E t2 \in Tokens : t2 > req[r].token /\ req[r].cookie = Sha256Hex(t2)

\* C35: when a browser has started a second flow (T2) before the callback of
\* the first (T1), the callback for T1 fails the binding check with
\* invalid_request, the cookie holding the hash of T2, and leaves the entry
\* of T1 in the store; it never gets to complete.
C35_SupersededFails ==
    [][\A r \in ReqIds :
         (req[r].pc = "check" /\ req'[r].pc # "check"
            /\ Superseded(r) /\ req[r].stored # Absent)
         => /\ req'[r].pc = "failed"
            /\ req'[r].resp = ErrBindingMismatch
            /\ req'[r].resp.error = "invalid_request"
            /\ kv' = kv]_vars

\* the callback for T1 has failed on the cookie of T2, and the entry of T1 is
\* still in the store
C35_Witness ==
    \E r \in ReqIds :
        /\ Superseded(r)
        /\ req[r].pc = "failed"
        /\ req[r].resp = ErrBindingMismatch
        /\ kv[req[r].token] # Absent
        /\ fate[req[r].token] = "live"
        /\ jar[req[r].browser].consented = req[r].cookie

\* C38: a callback of part_001 whose exchange returned no access token, or
\* whose anchor profile fetch failed, leaves the credential store as it was:
\* no user row and no integration row is inserted or updated.
C38_FailedExchangeWritesNothing ==
    [][(idSteps' # idSteps /\ pendingAuth' # pendingAuth
            /\ pendingAuth' \subseteq pendingAuth /\ lastExchange'.result # "token")
         => users' = users]_vars

(* ---------------------------- claims on /authorize ---------------------- *)

\* C11: validateCSRFToken succeeds if and only if the form field csrf_token
\* is a non-empty string, the __Host-CSRF_TOKEN cookie is present and
\* non-empty, and the two are equal; in every other case it throws
\* invalid_request (400), which is the response of POST /authorize.
C11_CsrfValidation ==
    auth.route = "POST" =>
        /\ auth.csrfError = NoResponse <=>
              (auth.form \in AuthTokens /\ auth.csrfCookie \in AuthTokens
                  /\ auth.form = auth.csrfCookie)
        /\ auth.csrfError # NoResponse =>
              (IsInvalidRequest(auth.csrfError) /\ auth.resp = auth.csrfError
                  /\ auth.token = NoState)

C11_Witness ==
    /\ auth.route = "POST"
    /\ auth.form \in AuthTokens /\ auth.csrfCookie \in AuthTokens
    /\ auth.form # auth.csrfCookie
    /\ auth.resp = ErrCsrfMismatch

\* C12: the 302 of a successful POST /authorize carries two Set-Cookie
\* headers, one that is the approved-clients cookie of addApprovedClient and
\* one that is the session-binding cookie of bindStateToSession, and the
\* browser holds both afterwards.
C12_PostSetsBothCookies ==
    (auth.route = "POST" /\ auth.resp.status = 302) =>
        /\ \E i, j \in DOMAIN auth.headers :
              auth.headers[i] = <<"approved">> /\ auth.headers[j] = <<"consented">>
        /\ cookies.approved = addApprovedClient(auth.approvedSent, auth.clientId, secret)
        /\ cookies.consented = bindStateToSession(auth.token)

\* the cookie addApprovedClient issues for a list of client IDs
IssuedCookie(list, key) ==
    signData(JSONStringifyClients(list), key) \o <<".">> \o btoa(JSONStringifyClients(list))

\* the cookie is one the server issued, for a list that holds the client
VerifiesAndContains(raw, clientId, key) ==
    \E list \in ClientLists :
        /\ raw = IssuedCookie(list, key)
        /\ \E i \in DOMAIN list : list[i] = clientId

\* C19: in the standard flow /authorize stores a state entry (and redirects
\* to the provider) for client C only if the approved-clients cookie of the
\* GET request verifies and contains C, or the request is a POST that passed
\* CSRF validation; a GET for a client that is not approved is answered with
\* the consent page and a fresh CSRF cookie, and stores nothing.
C19_ApprovalGate ==
    /\ (auth.route # "none" /\ ~auth.direct /\ (auth.token # NoState \/ auth.resp.status = 302)) =>
          \/ auth.route = "GET"
                /\ VerifiesAndContains(auth.approvedSent, auth.clientId, secret)
          \/ auth.route = "POST"
                /\ auth.form \in AuthTokens /\ auth.form = auth.csrfCookie
    /\ (auth.route = "GET" /\ ~auth.direct /\ auth.clientId # Undef
            /\ ~VerifiesAndContains(auth.approvedSent, auth.clientId, secret)) =>
          /\ auth.resp = ConsentPage
          /\ Stores(auth.headers, "csrf") /\ cookies.csrf = served
          /\ auth.token = NoState /\ stateKeys[served] = Absent


(* ------------------ claims on the record of providers ------------------- *)

Lists(list, provider) == \E i \in DOMAIN list : list[i] = provider

\* flow id has written the record and the record holds its provider
KeptInRecord(id) ==
    /\ providersKv.providers[callbacks[id].provider].accessToken # NoToken
    /\ Lists(providersKv.connectedIntegrations, callbacks[id].provider)

\* C13: when the callbacks of two incremental authorizations for one identity
\* and different providers have both written the record
\* user-providers::<email>, overlapping in time or not, the record holds the
\* credential and the connected-provider entry of both: a later write never
\* erases the provider of an earlier one.
C13_ConcurrentWritesKept ==
    \A a, b \in CallbackIds :
        (/\ a # b
         /\ callbacks[a].isDirect /\ callbacks[b].isDirect
         /\ callbacks[a].wrote /\ callbacks[b].wrote
         /\ callbacks[a].provider # callbacks[b].provider) =>
            KeptInRecord(a) /\ KeptInRecord(b)

(* ----------------------- claims on the callback merge ------------------- *)

\* the providers the props of oauth-handler.ts can hold a credential of
HandlerProviderNames == {"github", "gmail", "calendar", "drive", "notion"}

\* C5: in the callback of oauth-handler.ts, for a flow whose state carries
\* existingProps, the providers map passed to completeAuthorization holds the
\* freshly exchanged credential under the provider just authenticated and, for
\* every other provider with an access token in existingProps, that access
\* token and refresh token.
C5_MergeKeepsOtherProviders ==
    (last.handler = "oauth-handler" /\ last.existingProps.present) =>
        /\ last.providers[last.provider].accessToken = last.exchanged
        /\ \A q \in HandlerProviderNames \ {last.provider} :
              last.existingProps[AccessField(q)] # NoToken =>
                  last.providers[q] = ExistingCredential(last.existingProps, q)

\* the providers the props of part_001 can hold a credential of
Part001ProviderNames == {"google", "gmail", "calendar", "drive", "notion", "slack"}

ProviderNamesOf(handler) ==
    IF handler = "part_001" THEN Part001ProviderNames ELSE HandlerProviderNames

\* the provider whose account gives the bundle its identity
AnchorProvider(handler) == IF handler = "part_001" THEN "google" ELSE "github"

\* an identity that stands for nobody
PlaceholderIdentity(props) ==
    \/ Falsy(props.email)
    \/ props.email = "unknown-user@example.com"
    \/ props.login \in {"google-user", "notion-user", "user"}

\* C6: in the callback, when the state carries existingProps with a
\* non-placeholder identity and the provider authorized is not the anchor
\* provider, the identity passed to completeAuthorization is that of
\* existingProps, and apart from the entry of the provider authorized and the
\* connected-provider list nothing changes: every other provider keeps the
\* credential entry it had.
C6_AnchorIdentityStable ==
    (/\ last.handler # "none"
     /\ last.existingProps.present
     /\ ~PlaceholderIdentity(last.existingProps)
     /\ last.provider # AnchorProvider(last.handler)) =>
        /\ last.userData.email = last.existingProps.email
        /\ last.userData.name = last.existingProps.name
        /\ last.userData.login = last.existingProps.login
        /\ \A q \in ProviderNamesOf(last.handler) \ {last.provider} :
              last.providers[q].accessToken = last.existingProps[AccessField(q)]
        /\ last.connectedIntegrations = mergedIntegrations(last.existingProps, last.provider)

NoDuplicates(list) == \A i, j \in DOMAIN list : list[i] = list[j] => i = j

\* the provider of the latest callback was connected already when its flow began
ConnectedBefore ==
    /\ last.completed
    /\ \E i \in DOMAIN last.existingProps.connectedIntegrations :
          last.existingProps.connectedIntegrations[i] = last.provider

C16_StoreFailureTolerated ==
    (last.handler = "part_001" /\ last.provider # "google" /\ last.dbFailure # "none") =>
        /\ last.completed
        /\ last.providers[last.provider] = Credential(last.exchanged, last.exchanged)

C16_Witness ==
    /\ last.handler = "part_001"
    /\ last.provider # "google"
    /\ last.dbFailure = "save"
    /\ last.completed
    /\ integrations.rows[last.provider].accessToken # last.exchanged

\* C21: in the callback of oauth-handler.ts, when gmail, calendar, drive or
\* notion is authorized and the state carries no existingProps, the identity
\* passed to completeAuthorization is the placeholder, not one taken from the
\* profile or the token response of that provider.
C21_PlaceholderKept ==
    (/\ last.completed
     /\ last.handler = "oauth-handler"
     /\ last.provider \in {"gmail", "calendar", "drive", "notion"}
     /\ ~last.existingProps.present) =>
        /\ PlaceholderIdentity(last.userData)
        /\ last.userData \notin {GoogleUserInfo, NotionOwnerUser}

\* the profile the anchor provider of the handler reports
AnchorProfile(handler) == IF handler = "part_001" THEN Part001GoogleUser ELSE GitHubUser

SameIdentity(a, b) == a.email = b.email /\ a.name = b.name /\ a.login = b.login

\* C22: when the callback of the anchor provider completes, the identity
\* passed to completeAuthorization, and the one in the props of a standard
\* flow, is the one fetched from the profile of the anchor provider, also when
\* the state carried existingProps with another identity.
C22_AnchorOverwrites ==
    (last.completed /\ last.provider = AnchorProvider(last.handler)) =>
        /\ SameIdentity(last.userData, AnchorProfile(last.handler))
        /\ ~last.isDirect =>
              /\ last.props.email = AnchorProfile(last.handler).email
              /\ last.props.name = AnchorProfile(last.handler).name
              /\ last.handler = "oauth-handler" =>
                    last.props.login = AnchorProfile(last.handler).login

C22_Witness ==
    /\ last.completed
    /\ last.provider = AnchorProvider(last.handler)
    /\ last.existingProps.present
    /\ ~PlaceholderIdentity(last.existingProps)
    /\ last.existingProps.email # last.userData.email

Elements(list) == {list[i] : i \in DOMAIN list}

FreshAnchorCallback ==
    /\ exchanges' # exchanges
    /\ last'.completed
    /\ last'.provider = AnchorProvider(last'.handler)
    /\ ~last'.isDirect
    /\ ~last'.existingProps.present
    /\ integrations = NoIntegrations
    /\ last'.scope = <<"calendar">>

\* C24: when a fresh user, with no existingProps and no stored credentials,
\* completes the flow of the anchor provider with the scope calendar, the
\* connectedIntegrations passed on and those of the props are exactly the
\* anchor, no other provider has a credential in the bundle, and the callback
\* starts no other flow.
C24_AnchorOnly ==
    [][FreshAnchorCallback =>
        LET anchor == AnchorProvider(last'.handler)
        IN  /\ last'.connectedIntegrations = <<anchor>>
            /\ last'.props.connectedIntegrations = <<anchor>>
            /\ \A q \in ProviderNames \ {anchor} : last'.providers[q] = NoCredential
            /\ last'.props.calendarAccessToken = NoToken
            /\ last'.props.calendarRefreshToken = NoToken
            /\ flows' \subseteq flows]_vars

C24_Witness ==
    /\ last.completed
    /\ last.provider = AnchorProvider(last.handler)
    /\ ~last.isDirect
    /\ last.scope = <<"calendar">>
    /\ last.props.connectedIntegrations = <<AnchorProvider(last.handler)>>
    /\ last.props.accessToken = last.exchanged

(* ------------------ claims on the approved-clients cookie --------------- *)

\* C7: for a cookie issued by addApprovedClient of which one byte has been
\* changed, in the signature, the separator or the payload, isClientApproved
\* returns false for every client ID and does not throw.
C7_TamperedCookieRejected ==
    (approvedCookie # pristine /\ verdict.result \notin {"none", "added"}) =>
        verdict.result = "false"

\* the client IDs the cookie encodes under the key of the run
ApprovedList(raw) == getApprovedClientsFromCookie(raw, secret).clients

\* C26: when a browser sends the approved-clients cookie as it last received
\* it, the client IDs of the cookie that addApprovedClient returns include
\* every client ID of the cookie sent: no approval removes a client.
C26_ApprovalsOnlyGrow ==
    [][(approvedCookie = pristine /\ verdict'.result = "added") =>
          /\ Elements(ApprovedList(approvedCookie)) \subseteq Elements(ApprovedList(approvedCookie'))
          /\ verdict'.client \in Elements(ApprovedList(approvedCookie'))]_vars

C26_Witness ==
    /\ verdict.result = "added"
    /\ Len(verdict.before) = 1
    /\ Len(ApprovedList(approvedCookie)) = 2

\* C27: when the cookie of the request verifies and holds client C already,
\* the cookie addApprovedClient(C) returns encodes the list the request's
\* cookie encoded: the same client IDs in the same order, C once.
C27_ApproveAgainIsNoOp ==
    (verdict.result = "added" /\ verdict.client \in Elements(verdict.before)) =>
        /\ ApprovedList(approvedCookie) = verdict.before
        /\ NoDuplicates(ApprovedList(approvedCookie))

C27_Witness ==
    /\ verdict.result = "added"
    /\ verdict.before = <<"c1", "c2">>
    /\ verdict.client = "c1"
    /\ ApprovedList(approvedCookie) = <<"c1", "c2">>

====
